---- MODULE Spec2Model ----
(***************************************************************************)
(* Model of the Anubis backend: the real-time scan session controller      *)
(* (services/network_scanner.py), the classifier's load state              *)
(* (services/ai_model_service.py) and the analysis job status machine      *)
(* (routers/pcap_router.py).                                               *)
(*                                                                         *)
(* Everything runs on one asyncio event loop.  A step of the model is the   *)
(* code a coroutine executes between two points where it really suspends:  *)
(* `await asyncio.sleep`, `await self.scan_task`, the Motor inserts and the *)
(* executor calls of the extractor.  `await` of a coroutine that never      *)
(* suspends (load_model, predict_single_flow) does not yield to the loop.   *)
(***************************************************************************)
EXTENDS Integers, Sequences, FiniteSets, TLC

\* ---- bounds ----
MaxSessions == 2   \* number of start_scanning calls that create a session
MaxBatch == 2      \* flows generated per cycle (the source draws 1..5)
MaxFlows == 2      \* cap on the flows counted by one session
MaxStops == 1      \* stop_scanning calls that may be in progress at once
MaxJobs == 2       \* uploads accepted by upload_pcap_file
MaxVectors == 5    \* vectors of one batch handed to the classifier
MaxPackets == 3    \* packets of one capture
MaxExtracted == 4  \* flows of one parallel extraction

\* ---- program constants ----
None == 0

SessionIds == 1..MaxSessions
StopCalls == 1..MaxStops

\* settings.get('scan_interval_seconds', 5): the key is absent (the default,
\* a number, is used) or holds a value asyncio.sleep cannot compare with 0
\* (the request model accepts any dict).
IntervalSettings == {"absent", "text"}
\* user_id argument: None (the default) or a string
UserIds == {"None", "user"}
\* what the frozen classifier answers for one flow: a class, or it throws
ModelBehaviours == {"BENIGN", "ATTACK", "THROW"}

VARIABLES
  is_scanning,            \* NetworkScanner.is_scanning
  current_scan_session,   \* NetworkScanner.current_scan_session (None or id)
  scan_results,           \* NetworkScanner.scan_results (the current list)
  scan_task,              \* NetworkScanner.scan_task (None or task id)
  has_db,                 \* NetworkScanner.db is not None
  sessions,               \* the reachable ScanSession objects, by id
  tasks,                  \* every _scan_loop task created so far, by id
  is_loaded,              \* AIModelService.is_loaded
  stops,                  \* the activations of stop_scanning
  db_sessions,            \* documents inserted into db.scan_sessions
  db_results,             \* documents inserted into db.scan_results
  stopped,                \* ids of the sessions stop_scanning has returned
  now,                    \* datetime.utcnow(), as a logical clock
  ret,                    \* the last operation and what it returned
  analysis_status_store,  \* pcap_router.analysis_status_store
  analysis_results_store, \* pcap_router.analysis_results_store
  background,             \* the analyze_pcap_file activations, by analysis id
  status_history,         \* per analysis id, the values assigned to .status
  temp_dirs,              \* analysis ids whose directory exists under temp_dir
  analysis,               \* one analyze_pcap_file run: table, predictions, result
  call                    \* one call of a service function: arguments and answer

scanVars == <<is_scanning, current_scan_session, scan_results, scan_task,
              has_db, sessions, tasks, is_loaded, stops, db_sessions,
              db_results, stopped>>

jobVars == <<analysis_status_store, analysis_results_store, background,
             status_history, temp_dirs, analysis, call>>

vars == <<scanVars, jobVars, now, ret>>

\* ---- models/network_models.py ----

\* ScanSession(settings=..., user_id=...): the defaults of the model class
ScanSession(settings) ==
  [status |-> "RUNNING", end_time |-> None, total_flows |-> 0,
   benign_count |-> 0, attack_count |-> 0, settings |-> settings]

\* pydantic rejects user_id=None for the required field `user_id: str`
ScanSessionValid(user_id) == user_id # "None"

\* ScanResult(network_flow, ai_prediction, scan_id): the session it was
\* produced for and n, its place in the buffer it was appended to (the flow
\* and prediction payload is not kept).
ScanResult(scan_id, n) == [scan_id |-> scan_id, n |-> n]

\* ---- services/ai_model_service.py ----

\* load_model: True and is_loaded = True when the three artifacts load,
\* otherwise the exception is swallowed, is_loaded = False, returns False.
load_model(artifacts_ok) == artifacts_ok

\* predict_single_flow: raises when the model is not loaded (before the try);
\* a scoring exception inside the try yields the BENIGN default.
predict_single_flow(loaded, behaviour) ==
  IF ~loaded THEN "RAISE"
  ELSE IF behaviour = "THROW" THEN "BENIGN"
  ELSE behaviour

\* ---- services/network_scanner.py: _scan_loop ----

\* the statistics update of one classified flow
CountFlowNoElse(s, classification) ==
  [s EXCEPT !.total_flows = @ + 1,
            !.benign_count = IF classification = "BENIGN" THEN @ + 1 ELSE @]

CountFlow(s, classification) ==
  [s EXCEPT !.total_flows = @ + 1,
            !.benign_count = IF classification = "BENIGN" THEN @ + 1 ELSE @,
            !.attack_count = IF classification = "BENIGN" THEN @ ELSE @ + 1]

\* the for loop over the flows of one cycle with the append after the
\* statistics update: a flow is counted and, unless it is an ATTACK, appended
RECURSIVE ProcessFlowsDroppingAttacks(_, _, _, _)
ProcessFlowsDroppingAttacks(s, buf, sid, outcomes) ==
  IF outcomes = <<>> THEN [session |-> s, results |-> buf]
  ELSE IF Head(outcomes) = "RAISE"
       THEN ProcessFlowsDroppingAttacks(s, buf, sid, Tail(outcomes))
       ELSE ProcessFlowsDroppingAttacks(
              CountFlow(s, Head(outcomes)),
              IF Head(outcomes) = "ATTACK" THEN buf
              ELSE Append(buf, ScanResult(sid, Len(buf) + 1)),
              sid, Tail(outcomes))

\* the for loop over the flows of one cycle: a flow whose prediction raised
\* is skipped by the inner except, the others are appended and counted.
RECURSIVE ProcessFlows(_, _, _, _)
ProcessFlows(s, buf, sid, outcomes) ==
  IF outcomes = <<>> THEN [session |-> s, results |-> buf]
  ELSE IF Head(outcomes) = "RAISE"
       THEN ProcessFlows(s, buf, sid, Tail(outcomes))
       ELSE ProcessFlows(CountFlow(s, Head(outcomes)),
                         Append(buf, ScanResult(sid, Len(buf) + 1)),
                         sid, Tail(outcomes))

\* asyncio.sleep(scan_interval) raises TypeError for a non-number
SleepRaises(settings) == settings = "text"

\* does an exception reach the outer `except Exception` of _scan_loop?
CycleCrashesOnFlowError(outcomes, settings) ==
  \/ SleepRaises(settings)
  \/ \E i \in 1..Len(outcomes) : outcomes[i] = "RAISE"

CycleCrashes(outcomes, settings) == SleepRaises(settings)

TaskAlive(t) == t.state # "done"

\* One cycle of the while loop, up to the sleep.
RunCycle(t, behaviours) ==
  LET sid == current_scan_session
      outcomes == [i \in 1..Len(behaviours) |->
                     predict_single_flow(is_loaded, behaviours[i])]
      r == ProcessFlows(sessions[sid], scan_results, sid, outcomes)
      crash == CycleCrashes(outcomes, sessions[sid].settings)
  IN /\ sessions[sid].total_flows + Len(behaviours) <= MaxFlows
     /\ sessions' = [sessions EXCEPT ![sid] = r.session]
     /\ scan_results' = r.results
     /\ is_scanning' = IF crash THEN FALSE ELSE is_scanning
     /\ tasks' = [tasks EXCEPT ![t] =
                    [@ EXCEPT !.state = IF crash THEN "done" ELSE "sleep"]]
     /\ ret' = [op |-> "_scan_loop", kind |-> IF crash THEN "crash" ELSE "cycle",
                sid |-> sid,
                failed |-> \E i \in 1..Len(outcomes) : outcomes[i] = "RAISE"]

\* The event loop runs task t (first step, or wake-up from the sleep).
ScanLoopStep(t) ==
  /\ t \in 1..Len(tasks)
  /\ TaskAlive(tasks[t])
  /\ UNCHANGED <<current_scan_session, scan_task, has_db, is_loaded, stops,
                 db_sessions, db_results, stopped, now>>
  /\ IF tasks[t].must_cancel
     THEN \* CancelledError: thrown into a task that never ran, the task
          \* ends cancelled; thrown at the sleep, _scan_loop catches it.
          /\ tasks' = [tasks EXCEPT ![t] =
                         [state |-> "done", must_cancel |-> FALSE]]
          /\ ret' = [op |-> "_scan_loop", kind |-> "cancelled", sid |-> None, failed |-> FALSE]
          /\ UNCHANGED <<is_scanning, scan_results, sessions>>
     ELSE IF ~is_scanning
     THEN \* `while self.is_scanning` is false: the coroutine returns
          /\ tasks' = [tasks EXCEPT ![t] = [@ EXCEPT !.state = "done"]]
          /\ ret' = [op |-> "_scan_loop", kind |-> "exit", sid |-> None, failed |-> FALSE]
          /\ UNCHANGED <<is_scanning, scan_results, sessions>>
     ELSE \E n \in 1..MaxBatch :
            \E behaviours \in [1..n -> ModelBehaviours] :
              RunCycle(t, behaviours)

\* ---- services/network_scanner.py: start_scanning ----

\* `if self.is_scanning: raise Exception(...)`
StartRejectedNever(scanning) == FALSE

StartRejected(scanning) == scanning

StartScanning(settings, user_id, artifacts_ok) ==
  /\ UNCHANGED <<has_db, stops, db_sessions, db_results, stopped, now>>
  /\ IF StartRejected(is_scanning)
     THEN /\ ret' = [op |-> "start_scanning", kind |-> "raise", sid |-> None, failed |-> FALSE]
          /\ UNCHANGED <<is_scanning, current_scan_session, scan_results,
                         scan_task, sessions, tasks, is_loaded>>
     ELSE LET loaded == IF is_loaded THEN TRUE ELSE load_model(artifacts_ok)
              sid == Len(tasks) + 1
          IN /\ is_loaded' = loaded
             /\ IF ~ScanSessionValid(user_id)
                THEN \* ValidationError from ScanSession(...)
                     /\ ret' = [op |-> "start_scanning", kind |-> "invalid",
                                sid |-> None, failed |-> FALSE]
                     /\ UNCHANGED <<is_scanning, current_scan_session,
                                    scan_results, scan_task, sessions, tasks>>
                ELSE /\ Len(tasks) < MaxSessions
                     /\ sessions' = [s \in {sid} |-> ScanSession(settings)]
                     /\ current_scan_session' = sid
                     /\ is_scanning' = TRUE
                     /\ scan_results' = <<>>
                     /\ tasks' = Append(tasks, [state |-> "new",
                                                must_cancel |-> FALSE])
                     /\ scan_task' = Len(tasks) + 1
                     /\ ret' = [op |-> "start_scanning", kind |-> "session",
                                sid |-> sid, failed |-> FALSE]

\* ---- services/network_scanner.py: stop_scanning ----

IdleStop == [pc |-> "idle", task |-> None, doc |-> None, docs |-> <<>>]

\* `if not self.is_scanning: return None`
StopIsNoOpNever(scanning) == FALSE

StopIsNoOp(scanning) == ~scanning

\* the status written by the finalization
FinalStatusToggle(old) == IF old = "RUNNING" THEN "COMPLETED" ELSE "STOPPED"

FinalStatus(old) == "COMPLETED"

\* lines 84-110, run by activation c under the operation label op: mark the
\* current session, then either suspend in insert_one or return it.  With
\* no current session line 109 raises AttributeError.
Finalize(c, awaited, op) ==
  LET sid == current_scan_session
  IN IF sid = None
     THEN /\ stops' = [stops EXCEPT ![c] = IdleStop]
          /\ ret' = [op |-> op, kind |-> "raise", sid |-> None, failed |-> FALSE]
          /\ UNCHANGED <<sessions, stopped, now>>
     ELSE /\ sessions' = [sessions EXCEPT ![sid] =
                            [@ EXCEPT !.status = FinalStatus(@),
                                      !.end_time = now + 1]]
          /\ now' = now + 1
          /\ IF has_db
             THEN /\ stops' = [stops EXCEPT ![c] =
                                 [pc |-> "insert_one", task |-> awaited,
                                  doc |-> sid, docs |-> <<>>]]
                  /\ ret' = [op |-> op, kind |-> "await", sid |-> None,
                             failed |-> FALSE]
                  /\ UNCHANGED stopped
             ELSE /\ stops' = [stops EXCEPT ![c] = IdleStop]
                  /\ ret' = [op |-> op, kind |-> "session", sid |-> sid,
                             failed |-> FALSE]
                  /\ stopped' = stopped \cup {sid}

\* stop_scanning is called: lines 72-82 up to `await self.scan_task`
StopScanning(c) ==
  /\ stops[c].pc = "idle"
  /\ UNCHANGED <<current_scan_session, scan_results, scan_task, has_db,
                 is_loaded, db_sessions, db_results>>
  /\ IF StopIsNoOp(is_scanning)
     THEN /\ ret' = [op |-> "stop_scanning", kind |-> "None", sid |-> None, failed |-> FALSE]
          /\ UNCHANGED <<is_scanning, sessions, tasks, stops, stopped, now>>
     ELSE /\ is_scanning' = FALSE
          /\ IF scan_task # None /\ TaskAlive(tasks[scan_task])
             THEN \* cancel() marks the task; the await suspends this call
                  /\ tasks' = [tasks EXCEPT ![scan_task] =
                                 [@ EXCEPT !.must_cancel = TRUE]]
                  /\ stops' = [stops EXCEPT ![c] =
                                 [pc |-> "await_task", task |-> scan_task,
                                  doc |-> None, docs |-> <<>>]]
                  /\ ret' = [op |-> "stop_scanning", kind |-> "await",
                             sid |-> None, failed |-> FALSE]
                  /\ UNCHANGED <<sessions, stopped, now>>
             ELSE \* awaiting a finished task does not suspend
                  /\ UNCHANGED tasks
                  /\ Finalize(c, scan_task, "stop_scanning")

\* the awaited task has finished: the call resumes after the try/except
StopResume(c) ==
  /\ stops[c].pc = "await_task"
  /\ ~TaskAlive(tasks[stops[c].task])
  /\ UNCHANGED <<is_scanning, current_scan_session, scan_results, scan_task,
                 has_db, tasks, is_loaded, db_sessions, db_results>>
  /\ Finalize(c, stops[c].task, "stop_scanning resumed")

\* insert_one completes (or raises): lines 93-105
StopInsertOne(c, db_ok) ==
  /\ stops[c].pc = "insert_one"
  /\ UNCHANGED <<is_scanning, current_scan_session, scan_results, scan_task,
                 has_db, sessions, tasks, is_loaded, db_results, now>>
  /\ IF db_ok
     THEN /\ db_sessions' = db_sessions \cup {stops[c].doc}
          /\ IF scan_results # <<>>
             THEN /\ stops' = [stops EXCEPT ![c] =
                                 [@ EXCEPT !.pc = "insert_many",
                                           !.docs = scan_results]]
                  /\ ret' = [op |-> "stop_scanning resumed", kind |-> "await",
                             sid |-> None, failed |-> FALSE]
                  /\ UNCHANGED stopped
             ELSE /\ stops' = [stops EXCEPT ![c] = IdleStop]
                  /\ ret' = [op |-> "stop_scanning resumed", kind |-> "session",
                             sid |-> current_scan_session, failed |-> FALSE]
                  /\ stopped' = stopped \cup {current_scan_session}
     ELSE /\ UNCHANGED db_sessions
          /\ stops' = [stops EXCEPT ![c] = IdleStop]
          /\ ret' = [op |-> "stop_scanning resumed", kind |-> "session",
                     sid |-> current_scan_session, failed |-> FALSE]
          /\ stopped' = stopped \cup {current_scan_session}

\* insert_many completes (or raises): lines 99-105, then the return
StopInsertMany(c, db_ok) ==
  /\ stops[c].pc = "insert_many"
  /\ UNCHANGED <<is_scanning, current_scan_session, scan_results, scan_task,
                 has_db, sessions, tasks, is_loaded, db_sessions, now>>
  /\ db_results' = IF db_ok
                   THEN db_results \cup {stops[c].docs[i] : i \in 1..Len(stops[c].docs)}
                   ELSE db_results
  /\ stops' = [stops EXCEPT ![c] = IdleStop]
  /\ ret' = [op |-> "stop_scanning resumed", kind |-> "session",
             sid |-> current_scan_session, failed |-> FALSE]
  /\ stopped' = stopped \cup {current_scan_session}

\* ---- services/network_scanner.py: the read operations ----

Last10(s) == IF Len(s) <= 10 THEN s ELSE SubSeq(s, Len(s) - 9, Len(s))

get_current_status ==
  IF current_scan_session = None
  THEN [is_scanning |-> FALSE, session |-> None, recent_results |-> <<>>,
        total_results |-> 0]
  ELSE [is_scanning |-> is_scanning, session |-> current_scan_session,
        recent_results |-> Last10(scan_results),
        total_results |-> Len(scan_results)]

get_all_results == scan_results

\* ---- routers/pcap_router.py and services/pcap_analyzer.py ----

JobIds == 1..MaxJobs

\* a filename, as the list of its parts between the dots
FileNames == {<<"a", "PCAP">>, <<"a", "pdf">>, <<"pcap">>}

max_size == 104857600

\* the size limit of analyze_pcap_sync
max_sync_size == 10485760

\* len(file_content)
ContentSizes == {0, 1}

valid_extensions == {"pcap", "pcapng", "cap"}

\* str.lower()
Lower(part) == IF part = "PCAP" THEN "pcap" ELSE part

\* '.' + file.filename.split('.')[-1].lower()
RouterExtension(filename) == Lower(filename[Len(filename)])

\* Path(filename).suffix.lower(): empty unless a dot follows a non-empty
\* prefix and precedes a non-empty last part
PathSuffix(filename) ==
  IF \/ Len(filename) = 1
     \/ filename[Len(filename)] = ""
     \/ (Len(filename) = 2 /\ filename[1] = "")
  THEN ""
  ELSE Lower(filename[Len(filename)])

\* the store entries, as functions from the ids present to their values
Put(store, k, v) ==
  [x \in (DOMAIN store) \cup {k} |-> IF x = k THEN v ELSE store[x]]

Del(store, k) == [x \in (DOMAIN store) \ {k} |-> store[x]]

\* AnalysisStatus(status="queued", ...) of upload_pcap_file
InitialStatus ==
  [status |-> "queued", progress |-> 0, message |-> "queued",
   completed_at |-> None]

\* the except handler of process_pcap_analysis
FailedStatusRetry(old, t) ==
  [old EXCEPT !.status = "queued", !.progress = 0,
              !.message = "Analysis failed", !.completed_at = t]

FailedStatus(old, t) ==
  [old EXCEPT !.status = "failed", !.progress = 0,
              !.message = "Analysis failed", !.completed_at = t]

CompletedStatus(old, t) ==
  [old EXCEPT !.status = "completed", !.progress = 100,
              !.message = "Analysis completed successfully",
              !.completed_at = t]

\* the extension test of upload_pcap_file and analyze_pcap_sync
ExtensionRejectedNever(filename) == FALSE

ExtensionRejected(filename) ==
  RouterExtension(filename) \notin valid_extensions

\* one activation of analyze_pcap_file: a background task of an upload
\* (mode async) or the body of an analyze_pcap_sync request (mode sync).
\* empty: len(file_content) = 0; outcome: what analyze_pcap_file did,
\* "result" or "raise"; unloaded: the classifier was not loaded when the
\* run reached _get_model_predictions; rmtree_failed: shutil.rmtree raised
\* in the run's cleanup.
Activation(mode, pc, filename, size) ==
  [mode |-> mode, pc |-> pc, filename |-> filename, empty |-> (size = 0),
   outcome |-> "none", unloaded |-> FALSE, rmtree_failed |-> FALSE]

\* _cleanup_temp_files that removes self.temp_dir itself
CleanupTempFilesShared(dirs, analysis_id, rmtree_ok) ==
  IF rmtree_ok
  THEN [temp_dirs |-> {}, raised |-> FALSE]
  ELSE [temp_dirs |-> dirs, raised |-> FALSE]

\* _cleanup_temp_files that lets the removal error out
CleanupTempFilesRaising(dirs, analysis_id, rmtree_ok) ==
  IF analysis_id \in dirs
  THEN IF rmtree_ok
       THEN [temp_dirs |-> dirs \ {analysis_id}, raised |-> FALSE]
       ELSE [temp_dirs |-> dirs, raised |-> TRUE]
  ELSE [temp_dirs |-> dirs, raised |-> FALSE]

\* _cleanup_temp_files: the directories left and whether the call raised.
\* rmtree is attempted only when the directory exists; its error is caught.
CleanupTempFiles(dirs, analysis_id, rmtree_ok) ==
  IF analysis_id \in dirs /\ rmtree_ok
  THEN [temp_dirs |-> dirs \ {analysis_id}, raised |-> FALSE]
  ELSE [temp_dirs |-> dirs, raised |-> FALSE]

\* the except handler of analyze_pcap_file without its cleanup call
CleanupOnErrorSkipped(dirs, analysis_id, rmtree_ok) ==
  [temp_dirs |-> dirs, raised |-> FALSE]

\* line 61: the cleanup call of the except handler of analyze_pcap_file
CleanupOnError(dirs, analysis_id, rmtree_ok) ==
  CleanupTempFiles(dirs, analysis_id, rmtree_ok)

\* _save_temp_file raises ValueError before it creates anything
SaveRejected(filename) == PathSuffix(filename) \notin valid_extensions

\* _get_model_predictions: predict_batch_features raises when the classifier
\* is not loaded, the except clause catches every Exception and answers
\* with mock predictions, so nothing reaches the caller
ClassificationRaises(loaded) == FALSE

\* analyze_pcap_file from its start to the first executor call of the
\* extraction (steps 1 and the start of 2).  write_ok: open/write succeed.
\* Gives the directories left and whether the run raised before suspending.
AnalyzeBegin(dirs, analysis_id, filename, write_ok, rmtree_ok) ==
  IF SaveRejected(filename)
  THEN [temp_dirs |-> CleanupOnError(dirs, analysis_id, rmtree_ok).temp_dirs,
        raised |-> TRUE,
        rmtree_failed |-> FALSE]
  ELSE IF ~write_ok
  THEN [temp_dirs |-> CleanupOnError(dirs \cup {analysis_id}, analysis_id,
                                     rmtree_ok).temp_dirs,
        raised |-> TRUE,
        rmtree_failed |-> ~rmtree_ok]
  ELSE [temp_dirs |-> dirs \cup {analysis_id}, raised |-> FALSE,
        rmtree_failed |-> FALSE]

\* analyze_pcap_file from the return of the extraction to its end (steps 2
\* to 6).  steps_ok: no step raises an unexpected exception.  The cleanup of
\* the success path (line 54) runs inside the try, the one of the handler
\* (line 61) after any raise.
AnalyzeEnd(dirs, analysis_id, loaded, steps_ok, rmtree_ok) ==
  IF steps_ok /\ ~ClassificationRaises(loaded)
  THEN LET c == CleanupTempFiles(dirs, analysis_id, rmtree_ok)
       IN IF c.raised
          THEN [temp_dirs |-> CleanupOnError(c.temp_dirs, analysis_id,
                                             rmtree_ok).temp_dirs,
                raised |-> TRUE,
                rmtree_failed |-> analysis_id \in dirs /\ ~rmtree_ok]
          ELSE [temp_dirs |-> c.temp_dirs, raised |-> FALSE,
                rmtree_failed |-> analysis_id \in dirs /\ ~rmtree_ok]
  ELSE [temp_dirs |-> CleanupOnError(dirs, analysis_id, rmtree_ok).temp_dirs,
        raised |-> TRUE,
        rmtree_failed |-> analysis_id \in dirs /\ ~rmtree_ok]

\* the HTTPException(400) a request is refused with, "" when it is accepted:
\* the tests of upload_pcap_file (lines 100-123) and of analyze_pcap_sync
\* (lines 311-332), which has no test for empty content
Refusal(filename, size, limit, empty_checked) ==
  IF filename = <<"">> THEN "400 No filename provided"
  ELSE IF ExtensionRejected(filename) THEN "400 Invalid file type"
  ELSE IF size > limit THEN "400 File too large"
  ELSE IF empty_checked /\ size = 0 THEN "400 Empty file"
  ELSE ""

\* upload_pcap_file
UploadPcapFile(filename, size) ==
  /\ UNCHANGED <<scanVars, analysis_results_store, temp_dirs, now>>
  /\ IF Refusal(filename, size, max_size, TRUE) # ""
     THEN /\ ret' = [op |-> "upload_pcap_file",
                     kind |-> Refusal(filename, size, max_size, TRUE),
                     sid |-> None, failed |-> FALSE]
          /\ UNCHANGED <<analysis_status_store, background, status_history>>
     ELSE /\ Len(background) < MaxJobs
          /\ analysis_status_store' =
               Put(analysis_status_store, Len(background) + 1, InitialStatus)
          /\ status_history' = Append(status_history, <<InitialStatus.status>>)
          /\ background' =
               Append(background,
                      Activation("async", "scheduled", filename, size))
          /\ ret' = [op |-> "upload_pcap_file", kind |-> "accepted",
                     sid |-> Len(background) + 1, failed |-> FALSE]

\* the validation of analyze_pcap_sync: lines 311-332
SyncRejected(filename, size) ==
  Refusal(filename, size, max_sync_size, FALSE) # ""

\* analyze_pcap_sync up to the first executor call of the extraction
AnalyzePcapSync(filename, size, write_ok, rmtree_ok) ==
  /\ UNCHANGED <<scanVars, analysis_status_store, analysis_results_store,
                 now>>
  /\ IF SyncRejected(filename, size)
     THEN /\ ret' = [op |-> "analyze_pcap_sync",
                     kind |-> Refusal(filename, size, max_sync_size, FALSE),
                     sid |-> None, failed |-> FALSE]
          /\ UNCHANGED <<background, status_history, temp_dirs>>
     ELSE LET analysis_id == Len(background) + 1
              begun == AnalyzeBegin(temp_dirs, analysis_id, filename,
                                    write_ok, rmtree_ok)
          IN /\ Len(background) < MaxJobs
             /\ temp_dirs' = begun.temp_dirs
             /\ status_history' = Append(status_history, <<>>)
             /\ IF begun.raised
                THEN /\ background' =
                          Append(background,
                                 [Activation("sync", "finished", filename,
                                             size)
                                    EXCEPT !.outcome = "raise",
                                           !.rmtree_failed =
                                              begun.rmtree_failed])
                     /\ ret' = [op |-> "analyze_pcap_sync", kind |-> "500",
                                sid |-> analysis_id, failed |-> TRUE]
                ELSE /\ background' =
                          Append(background,
                                 Activation("sync", "extracting", filename,
                                            size))
                     /\ UNCHANGED ret

\* the extraction of a synchronous request returns; the rest of
\* analyze_pcap_file runs and analyze_pcap_sync answers
SyncFinish(j, steps_ok, rmtree_ok) ==
  /\ j \in 1..Len(background)
  /\ background[j].mode = "sync"
  /\ background[j].pc = "extracting"
  /\ UNCHANGED <<scanVars, analysis_status_store, analysis_results_store,
                 status_history, now>>
  /\ LET ended == AnalyzeEnd(temp_dirs, j, is_loaded, steps_ok, rmtree_ok)
     IN /\ temp_dirs' = ended.temp_dirs
        /\ background' =
             [background EXCEPT
                ![j] = [@ EXCEPT !.pc = "finished",
                                 !.outcome = IF ended.raised THEN "raise"
                                             ELSE "result",
                                 !.unloaded = ~is_loaded,
                                 !.rmtree_failed = ended.rmtree_failed]]
        /\ ret' = [op |-> "analyze_pcap_sync",
                   kind |-> IF ended.raised THEN "500" ELSE "result",
                   sid |-> j, failed |-> ended.raised]

\* process_pcap_analysis starts: lines 56-67 and analyze_pcap_file up to the
\* first executor call of the extraction.  A missing status entry raises
\* KeyError in the try and again in the except handler.  datetime.utcnow()
\* is read as now + 1; the clock itself need not advance between two jobs.
\* A background task answers no client: ret is left as it is.
ProcessStart(j, write_ok, rmtree_ok) ==
  /\ j \in 1..Len(background)
  /\ background[j].mode = "async"
  /\ background[j].pc = "scheduled"
  /\ UNCHANGED <<scanVars, analysis_results_store, now, ret>>
  /\ IF j \notin DOMAIN analysis_status_store
     THEN /\ background' = [background EXCEPT ![j].pc = "crashed"]
          /\ UNCHANGED <<analysis_status_store, status_history, temp_dirs>>
     ELSE LET processing == [analysis_status_store[j] EXCEPT
                               !.status = "processing", !.progress = 25,
                               !.message = "Extracting flow features..."]
              failed == FailedStatus(processing, now + 1)
              begun == AnalyzeBegin(temp_dirs, j, background[j].filename,
                                    write_ok, rmtree_ok)
          IN /\ temp_dirs' = begun.temp_dirs
             /\ IF begun.raised
                THEN /\ analysis_status_store' =
                          Put(analysis_status_store, j, failed)
                     /\ status_history' =
                          [status_history EXCEPT
                             ![j] = @ \o <<processing.status, failed.status>>]
                     /\ background' =
                          [background EXCEPT
                             ![j] = [@ EXCEPT !.pc = "finished",
                                              !.outcome = "raise",
                                              !.rmtree_failed =
                                                 begun.rmtree_failed]]
                ELSE /\ analysis_status_store' =
                          Put(analysis_status_store, j, processing)
                     /\ status_history' =
                          [status_history EXCEPT
                             ![j] = Append(@, processing.status)]
                     /\ background' =
                          [background EXCEPT ![j].pc = "extracting"]

\* the extraction returns; the rest of analyze_pcap_file and lines 69-87 run
\* to the end
ProcessFinish(j, steps_ok, rmtree_ok) ==
  /\ j \in 1..Len(background)
  /\ background[j].mode = "async"
  /\ background[j].pc = "extracting"
  /\ UNCHANGED <<scanVars, now, ret>>
  /\ LET ended == AnalyzeEnd(temp_dirs, j, is_loaded, steps_ok, rmtree_ok)
         run == [background[j] EXCEPT
                   !.outcome = IF ended.raised THEN "raise" ELSE "result",
                   !.unloaded = ~is_loaded,
                   !.rmtree_failed = ended.rmtree_failed]
     IN /\ temp_dirs' = ended.temp_dirs
        /\ analysis_results_store' =
             IF ended.raised
             THEN analysis_results_store
             ELSE Put(analysis_results_store, j,
                      [analysis_id |-> j, filename |-> run.filename])
        /\ IF j \notin DOMAIN analysis_status_store
           THEN /\ background' =
                     [background EXCEPT ![j] = [run EXCEPT !.pc = "crashed"]]
                /\ UNCHANGED <<analysis_status_store, status_history>>
           ELSE LET final ==
                      IF ended.raised
                      THEN FailedStatus(analysis_status_store[j], now + 1)
                      ELSE CompletedStatus(analysis_status_store[j], now + 1)
                IN /\ analysis_status_store' =
                        Put(analysis_status_store, j, final)
                   /\ status_history' =
                        [status_history EXCEPT ![j] = Append(@, final.status)]
                   /\ background' =
                        [background EXCEPT
                           ![j] = [run EXCEPT !.pc = "finished"]]

\* delete_analysis
DeleteAnalysis(j) ==
  /\ UNCHANGED <<scanVars, background, status_history, temp_dirs, now>>
  /\ IF j \notin DOMAIN analysis_status_store
     THEN /\ ret' = [op |-> "delete_analysis", kind |-> "404", sid |-> None,
                     failed |-> FALSE]
          /\ UNCHANGED <<analysis_status_store, analysis_results_store>>
     ELSE /\ analysis_status_store' = Del(analysis_status_store, j)
          /\ analysis_results_store' = Del(analysis_results_store, j)
          /\ ret' = [op |-> "delete_analysis", kind |-> "deleted", sid |-> j,
                     failed |-> FALSE]

\* get_analysis_status: the entry, or 404
get_analysis_status(j) ==
  IF j \notin DOMAIN analysis_status_store THEN "404"
  ELSE analysis_status_store[j].status

\* get_analysis_results: the status code of the answer
get_analysis_results(j) ==
  IF j \notin DOMAIN analysis_status_store THEN "404"
  ELSE IF analysis_status_store[j].status \in {"processing", "queued"} THEN "202"
  ELSE IF analysis_status_store[j].status = "failed" THEN "500"
  ELSE IF j \notin DOMAIN analysis_results_store THEN "404"
  ELSE "200"

\* ---- services/pcap_analyzer.py: the data path of one analysis ----

\* the largest flow table of a capture
MaxPredictions == 102

\* numbers of flows of the captures analysed: around each threshold of the
\* overall status, and around the cap of the detailed results
TableSizes == {1, 5, 10, 20, 50, 100, 101, MaxPredictions}

\* _generate_mock_flow_features: num_flows = randint(50, 500) under a fixed
\* seed, one value of 50..499
MockSizes == {50, MaxPredictions} \cap (50..499)

SrcAddresses == <<"192.168.1.1", "192.168.1.2", "192.168.1.3">>
DstAddresses == <<"8.8.8.8", "1.1.1.1">>

Cycle(seq, i) == seq[(i % Len(seq)) + 1]

\* row.get(key, default) of a pandas row
Get(row, key, default) == IF key \in DOMAIN row THEN row[key] ELSE default

\* destination ports and packet rates (packets per second) of the flows of
\* a capture
DstPorts == <<53, 22, 80, 445>>
PacketRates == <<1, 0, 10, 4>>

\* the row the extractor builds for the i-th flow: 'Flow ID' is the flow
\* key, the five-tuple joined by underscores
ExtractedRow(i) ==
  LET src == Cycle(SrcAddresses, i)
      dst == Cycle(DstAddresses, i)
      dst_port == Cycle(DstPorts, i)
  IN  ("Flow ID" :> <<src, "_", i, "_", dst, "_", dst_port, "_", 6>>)
      @@ ("Src IP" :> src) @@ ("Src Port" :> i)
      @@ ("Dst IP" :> dst) @@ ("Dst Port" :> dst_port)
      @@ ("Protocol" :> 6)
      @@ ("Flow Duration" :> i % 3)
      @@ ("Flow Pkts/s" :> Cycle(PacketRates, i))

ExtractedTable(n) == [i \in 1..n |-> ExtractedRow(i)]

\* a row of the generated sample table: 'Flow ID' is joined by hyphens
MockRow(i) ==
  LET src == Cycle(SrcAddresses, i)
      dst == Cycle(DstAddresses, i)
  IN  ("Flow ID" :> <<src, "-", i, "-", "8.8.8.8", "-", 80, "-", 6>>)
      @@ ("Src IP" :> src) @@ ("Src Port" :> 1024 + i)
      @@ ("Dst IP" :> dst) @@ ("Dst Port" :> Cycle(<<80, 443, 53>>, i))
      @@ ("Protocol" :> 6)
      @@ ("Flow Duration" :> i % 3)
      @@ ("Flow Pkts/s" :> Cycle(PacketRates, i))

\* _generate_mock_flow_features
GenerateMockFlowFeatures(num_flows) == [i \in 1..num_flows |-> MockRow(i)]

\* what extract_features_from_pcap hands back: None (is_none; a raise is
\* handled the same way), an empty table, or the table of the capture
ExtractorAnswers ==
  {[is_none |-> TRUE, rows |-> <<>>], [is_none |-> FALSE, rows |-> <<>>]}
  \cup {[is_none |-> FALSE, rows |-> ExtractedTable(n)] : n \in TableSizes}

\* `features_df is not None and not features_df.empty`
Usable(features_df) == ~features_df.is_none /\ Len(features_df.rows) > 0

\* _extract_flow_features: the extractor's table when it has rows, the
\* generated sample table otherwise; says which of the two it was
ExtractFlowFeatures(features_df, num_flows) ==
  IF Usable(features_df)
  THEN [flow_df |-> features_df.rows, synthetic |-> FALSE]
  ELSE [flow_df |-> GenerateMockFlowFeatures(num_flows), synthetic |-> TRUE]

\* `threat_type = None`
NoThreatType == "None"

\* confidences (in hundredths) the frozen classifier gives its verdicts
Confidences == <<95, 60>>

\* _determine_threat_type: the port rules in the order of the code, the
\* confidence rule only for a port none of them names
DetermineThreatTypeByConfidenceFirst(features, confidence) ==
  LET dst_port == Get(features, "Dst Port", 0)
      packet_rate == Get(features, "Flow Pkts/s", 0)
  IN  IF confidence > 90 THEN "High_Confidence_Attack"
      ELSE IF dst_port \in {22, 23} THEN "Brute_Force"
      ELSE IF dst_port \in {80, 443, 8080}
           THEN (IF packet_rate > 100 THEN "DDoS" ELSE "Web_Attack")
      ELSE IF dst_port \in {135, 139, 445} THEN "Lateral_Movement"
      ELSE "Suspicious_Activity"

DetermineThreatType(features, confidence) ==
  LET dst_port == Get(features, "Dst Port", 0)
      packet_rate == Get(features, "Flow Pkts/s", 0)
  IN  IF dst_port \in {22, 23} THEN "Brute_Force"
      ELSE IF dst_port \in {80, 443, 8080}
           THEN (IF packet_rate > 100 THEN "DDoS" ELSE "Web_Attack")
      ELSE IF dst_port \in {135, 139, 445} THEN "Lateral_Movement"
      ELSE IF confidence > 90 THEN "High_Confidence_Attack"
      ELSE "Suspicious_Activity"

\* one scored vector, `if pred == 1: ... else: ...`: probabilities is
\* predict_proba's pair in hundredths, probabilities[1] for class 0
ScoredOutput(features, prediction, probabilities) ==
  IF prediction = 1
  THEN LET confidence == probabilities[2]
       IN  [classification |-> "ATTACK", confidence |-> confidence,
            risk_score |-> confidence,
            threat_type |-> DetermineThreatType(features, confidence)]
  ELSE LET confidence == probabilities[1]
       IN  [classification |-> "BENIGN", confidence |-> confidence,
            risk_score |-> 100 - confidence, threat_type |-> NoThreatType]

\* the columns _preprocess_data keeps: a list that has no 'Dst Port'
feature_columns ==
  <<"Flow Duration", "Tot Fwd Pkts", "Tot Bwd Pkts", "TotLen Fwd Pkts",
    "TotLen Bwd Pkts", "Fwd Pkt Len Max", "Fwd Pkt Len Min",
    "Fwd Pkt Len Mean", "Fwd Pkt Len Std", "Bwd Pkt Len Max",
    "Bwd Pkt Len Min", "Bwd Pkt Len Mean", "Bwd Pkt Len Std", "Flow Byts/s",
    "Flow Pkts/s", "Flow IAT Mean", "Flow IAT Std", "Flow IAT Max",
    "Flow IAT Min", "Fwd IAT Tot", "Fwd IAT Mean", "Fwd IAT Std",
    "Fwd IAT Max", "Fwd IAT Min", "Bwd IAT Tot", "Bwd IAT Mean",
    "Bwd IAT Std", "Bwd IAT Max", "Bwd IAT Min">>

\* column.sum() over the rows first..last, by halves
RECURSIVE ColumnSum(_, _, _, _)
ColumnSum(rows, column, first, last) ==
  IF first > last THEN 0
  ELSE IF first = last THEN rows[first][column]
  ELSE ColumnSum(rows, column, first, (first + last) \div 2)
       + ColumnSum(rows, column, ((first + last) \div 2) + 1, last)

\* the sum over the rows first..last of (n * value - total) squared,
\* n * n * (n - 1) times the square of the column's std()
RECURSIVE SquaredDeviations(_, _, _, _, _, _)
SquaredDeviations(rows, column, n, total, first, last) ==
  IF first > last THEN 0
  ELSE IF first = last
  THEN (n * rows[first][column] - total) * (n * rows[first][column] - total)
  ELSE SquaredDeviations(rows, column, n, total, first, (first + last) \div 2)
       + SquaredDeviations(rows, column, n, total,
                           ((first + last) \div 2) + 1, last)

\* the whole part of the square root of q, searched upwards from k
RECURSIVE Root(_, _)
Root(q, k) == IF (k + 1) * (k + 1) > q THEN k ELSE Root(q, k + 1)

\* (value - mean) / (std + 1e-8), then fillna(0): the whole part of the
\* quotient (the 1e-8 is below what is kept); 0 for a column of one row,
\* whose std is nan, and for a column of equal values
Normalise(value, n, total, squares) ==
  IF n < 2 \/ squares = 0 THEN 0
  ELSE LET deviation == n * value - total
           root == Root((deviation * deviation * (n - 1)) \div squares, 0)
       IN  IF deviation < 0 THEN 0 - root ELSE root

\* feature_matrix.mean() and feature_matrix.std(), column by column, as the
\* total and the squared deviations they are computed from
ColumnStatistics(flow_df, available_features) ==
  [column \in available_features |->
     LET total == ColumnSum(flow_df, column, 1, Len(flow_df))
     IN  [total |-> total,
          squares |-> SquaredDeviations(flow_df, column, Len(flow_df), total,
                                        1, Len(flow_df))]]

\* (feature_matrix - mean) / (std + 1e-8) and fillna(0)
NormalisedMatrix(flow_df, available_features, statistics) ==
  [i \in 1..Len(flow_df) |->
     [column \in available_features |->
        Normalise(flow_df[i][column], Len(flow_df),
                  statistics[column].total, statistics[column].squares)]]

\* _preprocess_data: the feature matrix, one row per flow, holding the
\* columns of feature_columns the table has, each normalised over the table
\* (a table with none of them raises)
PreprocessData(flow_df) ==
  LET available_features ==
        {feature_columns[k] : k \in DOMAIN feature_columns}
          \cap DOMAIN flow_df[1]
  IN  CHOOSE feature_matrix \in
        {NormalisedMatrix(flow_df, available_features, statistics) :
           statistics \in {ColumnStatistics(flow_df, available_features)}} :
        TRUE

\* predict_batch_features, one row of the analyzer's matrix scored: the
\* verdict of the frozen classifier for row i, the threat type from the
\* features of the row
ModelOutput(features, i, attacks) ==
  LET confidence == Cycle(Confidences, i)
  IN  IF i \in attacks
      THEN ScoredOutput(features, 1, <<100 - confidence, confidence>>)
      ELSE ScoredOutput(features, 0, <<confidence, 100 - confidence>>)

\* predict_batch_features: the degraded default of a batch whose scoring
\* failed
DegradedDefault ==
  [classification |-> "BENIGN", confidence |-> 50, risk_score |-> 50,
   threat_type |-> NoThreatType]

MockThreatTypes == <<"DDoS", "Port_Scan", "Malware", "Intrusion">>

\* np.random.uniform(0.8, 0.99), in hundredths
MockConfidences == <<80, 90, 98>>
\* np.random.uniform(0.7, 1.0), in hundredths
MockAttackRisks == <<70, 99>>
\* np.random.uniform(0.0, 0.3), in hundredths
MockBenignRisks == <<0, 29>>

\* the except branch of _get_model_predictions: the heuristic's verdict
\* with a confidence, a risk and a threat type drawn independently of each
\* other (draw shifts the confidence against the risk)
MockPrediction(i, attacks, draw) ==
  IF i \in attacks
  THEN [classification |-> "ATTACK",
        confidence |-> Cycle(MockConfidences, i + draw),
        risk_score |-> Cycle(MockAttackRisks, i),
        threat_type |-> Cycle(MockThreatTypes, i)]
  ELSE [classification |-> "BENIGN",
        confidence |-> Cycle(MockConfidences, i + draw),
        risk_score |-> Cycle(MockBenignRisks, i),
        threat_type |-> NoThreatType]

batch_size == 100

BatchOf(i) == ((i - 1) \div batch_size) + 1

RECURSIVE SumOf(_, _)
SumOf(predictions, field) ==
  IF predictions = <<>> THEN 0
  ELSE predictions[1][field] + SumOf(Tail(predictions), field)

\* range(0, len(processed_data), batch_size): the number of batches
BatchCount(n) == (n + batch_size - 1) \div batch_size

\* the batch whose predict_batch_features call raises, 0 when none does:
\* the call raises only for a classifier that is not loaded, and nothing
\* loads or unloads it between two batches (no batch suspends)
RaisingBatchLast(loaded, batches) == IF loaded THEN 0 ELSE batches

RaisingBatch(loaded, batches) ==
  IF loaded \/ batches = 0 THEN 0 ELSE 1

\* the predictions one batch appends: one per row, the degraded default for
\* each row of a batch whose scoring failed inside predict_batch_features
BatchPredictions(processed_data, k, attacks, failing) ==
  LET first == (k - 1) * batch_size
      last == IF k * batch_size < Len(processed_data)
              THEN k * batch_size ELSE Len(processed_data)
  IN  [j \in 1..(last - first) |->
         IF k \in failing THEN DegradedDefault
         ELSE ModelOutput(processed_data[first + j], first + j, attacks)]

\* the predictions list after batches 1..upto
RECURSIVE ScoredBatches(_, _, _, _)
ScoredBatches(processed_data, upto, attacks, failing) ==
  IF upto = 0 THEN <<>>
  ELSE ScoredBatches(processed_data, upto - 1, attacks, failing)
       \o BatchPredictions(processed_data, upto, attacks, failing)

\* _get_model_predictions: the batches append to predictions in order; when
\* a batch raises, the except branch appends a mock prediction for every
\* row of the matrix to what the batches before it appended
GetModelPredictions(processed_data, loaded, attacks, failing, draw) ==
  LET n == Len(processed_data)
      raising == RaisingBatch(loaded, BatchCount(n))
  IN  IF raising = 0
      THEN ScoredBatches(processed_data, BatchCount(n), attacks, failing)
      ELSE ScoredBatches(processed_data, raising - 1, attacks, failing)
           \o [i \in 1..n |-> MockPrediction(i, attacks, draw)]

\* float(np.mean(values)) as the exact quotient, nan for no value
MeanOf(predictions, field) ==
  IF predictions = <<>> THEN "nan"
  ELSE [num |-> SumOf(predictions, field), den |-> Len(predictions)]

\* (count / len(predictions)) * 100 if predictions else 0, as a quotient
Percentage(count, total) ==
  IF total = 0 THEN [num |-> 0, den |-> 1]
  ELSE [num |-> 100 * count, den |-> total]

\* `malicious_percentage > threshold`
ExceedsOrEquals(percentage, threshold) ==
  percentage.num >= threshold * percentage.den

Exceeds(percentage, threshold) ==
  percentage.num > threshold * percentage.den

\* the thresholds of lines 317, 319 and 321, in percent
critical_threshold == 20
warning_threshold == 10
suspicious_threshold == 5

\* lines 317-324
OverallStatus(malicious_percentage) ==
  IF Exceeds(malicious_percentage, critical_threshold) THEN "CRITICAL"
  ELSE IF Exceeds(malicious_percentage, warning_threshold) THEN "WARNING"
  ELSE IF Exceeds(malicious_percentage, suspicious_threshold)
       THEN "SUSPICIOUS"
  ELSE "CLEAN"

\* the positions of the predictions classified ATTACK
AttackRows(predictions) ==
  {i \in 1..Len(predictions) : predictions[i].classification = "ATTACK"}

\* `predictions[:100]`, the slice of the detailed results
detailed_limit == 100

\* the predictions the counts, the addresses and the histogram run over
CountedRowsCapped(predictions) ==
  1..(IF Len(predictions) < detailed_limit
      THEN Len(predictions) ELSE detailed_limit)

CountedRows(predictions) == 1..Len(predictions)

\* lines 293-302: both addresses of every ATTACK row that has a table row,
\* 'Unknown' discarded
MaliciousIpsOfAllRows(flow_df, predictions) ==
  UNION {{Get(flow_df[i], "Src IP", "Unknown"),
          Get(flow_df[i], "Dst IP", "Unknown")} : i \in 1..Len(flow_df)}
  \ {"Unknown"}

MaliciousIps(flow_df, predictions) ==
  UNION {{Get(flow_df[i], "Src IP", "Unknown"),
          Get(flow_df[i], "Dst IP", "Unknown")} :
         i \in {k \in AttackRows(predictions) \cap CountedRows(predictions) :
                  k <= Len(flow_df)}}
  \ {"Unknown"}

\* the rows that add to the histogram: ATTACK with a threat type
ThreatRows(predictions) ==
  {i \in AttackRows(predictions) \cap CountedRows(predictions) :
     predictions[i].threat_type # NoThreatType}

\* lines 305-309: the items of the threat_types dict in insertion order,
\* each a pair <<threat type, count>>
RECURSIVE ThreatItems(_, _)
ThreatItems(predictions, rows) ==
  IF rows = {} THEN <<>>
  ELSE LET first == CHOOSE i \in rows : \A k \in rows : i <= k
           type == predictions[first].threat_type
           same == {k \in rows : predictions[k].threat_type = type}
       IN  <<<<type, Cardinality(same)>>>>
           \o ThreatItems(predictions, rows \ same)

ThreatTypes(predictions) ==
  ThreatItems(predictions, ThreatRows(predictions))

\* sorted(items, key=count, reverse=True): stable, the higher count first
RECURSIVE SortedByCount(_)
SortedByCount(items) ==
  IF items = <<>> THEN <<>>
  ELSE LET best == CHOOSE i \in 1..Len(items) :
                     /\ \A k \in 1..Len(items) : items[k][2] <= items[i][2]
                     /\ \A k \in 1..(i - 1) : items[k][2] < items[i][2]
       IN  <<items[best]>>
           \o SortedByCount([k \in 1..(Len(items) - 1) |->
                               IF k < best THEN items[k] ELSE items[k + 1]])

FirstN(seq, n) == SubSeq(seq, 1, IF Len(seq) < n THEN Len(seq) ELSE n)

\* lines 344-359: one entry for each of the first detailed_limit predictions
DetailedResultsFromEnd(flow_df, predictions) ==
  LET skipped == Len(predictions) - Len(FirstN(predictions, detailed_limit))
  IN  [i \in 1..Len(FirstN(predictions, detailed_limit)) |->
         [flow_id |-> Get(flow_df[skipped + i], "Flow ID", <<"Flow_", i - 1>>),
          src_ip |-> Get(flow_df[skipped + i], "Src IP", "Unknown"),
          dst_ip |-> Get(flow_df[skipped + i], "Dst IP", "Unknown"),
          src_port |-> Get(flow_df[skipped + i], "Src Port", 0),
          dst_port |-> Get(flow_df[skipped + i], "Dst Port", 0),
          protocol |-> Get(flow_df[skipped + i], "Protocol", 0),
          prediction |-> predictions[skipped + i]]]

DetailedResults(flow_df, predictions) ==
  [i \in 1..Len(FirstN(predictions, detailed_limit)) |->
     [flow_id |-> IF i <= Len(flow_df)
                  THEN Get(flow_df[i], "Flow ID", <<"Flow_", i - 1>>)
                  ELSE <<"Flow_", i - 1>>,
      src_ip |-> IF i <= Len(flow_df)
                 THEN Get(flow_df[i], "Src IP", "Unknown") ELSE "Unknown",
      dst_ip |-> IF i <= Len(flow_df)
                 THEN Get(flow_df[i], "Dst IP", "Unknown") ELSE "Unknown",
      src_port |-> IF i <= Len(flow_df)
                   THEN Get(flow_df[i], "Src Port", 0) ELSE 0,
      dst_port |-> IF i <= Len(flow_df)
                   THEN Get(flow_df[i], "Dst Port", 0) ELSE 0,
      protocol |-> IF i <= Len(flow_df)
                   THEN Get(flow_df[i], "Protocol", 0) ELSE 0,
      prediction |-> predictions[i]]]

\* len(set(flow_df[column])) if the table has the column, else 0
UniqueValues(flow_df, column) ==
  Cardinality({flow_df[i][column] :
                 i \in {k \in 1..Len(flow_df) : column \in DOMAIN flow_df[k]}})

\* _generate_analysis_results
GenerateAnalysisResults(flow_df, predictions, filename, analysis_id, clock) ==
  LET counted == CountedRows(predictions)
      benign_count ==
        Cardinality({i \in counted : predictions[i].classification = "BENIGN"})
      malicious_count ==
        Cardinality({i \in counted : predictions[i].classification = "ATTACK"})
      malicious_percentage == Percentage(malicious_count, Len(predictions))
      threat_types == ThreatTypes(predictions)
  IN  [analysis_id |-> analysis_id,
       filename |-> filename,
       timestamp |-> clock,
       summary |->
         [total_flows |-> Len(predictions),
          benign_flows |-> benign_count,
          malicious_flows |-> malicious_count,
          benign_percentage |-> Percentage(benign_count, Len(predictions)),
          malicious_percentage |-> malicious_percentage,
          overall_status |-> OverallStatus(malicious_percentage),
          overall_risk_score |-> MeanOf(predictions, "risk_score")],
       threats |->
         [malicious_ips |-> MaliciousIps(flow_df, predictions),
          threat_types |-> threat_types,
          top_threats |-> FirstN(SortedByCount(threat_types), 5)],
       detailed_results |-> DetailedResults(flow_df, predictions),
       statistics |->
         [average_confidence |-> MeanOf(predictions, "confidence"),
          flows_analyzed |-> Len(predictions),
          unique_src_ips |-> UniqueValues(flow_df, "Src IP"),
          unique_dst_ips |-> UniqueValues(flow_df, "Dst IP")]]

\* get_analysis_summary: what GET /analysis/{id}/summary answers for a
\* stored result (the addresses are the first 10 of a list made from a set)
get_analysis_summary(results) ==
  [analysis_id |-> results.analysis_id,
   filename |-> results.filename,
   timestamp |-> results.timestamp,
   summary |-> results.summary,
   threats |->
     [malicious_ips_count |-> Cardinality(results.threats.malicious_ips),
      malicious_ips |->
        IF Cardinality(results.threats.malicious_ips) <= 10
        THEN results.threats.malicious_ips
        ELSE CHOOSE s \in SUBSET results.threats.malicious_ips :
               Cardinality(s) = 10,
      threat_types |-> results.threats.threat_types,
      top_threats |-> results.threats.top_threats],
   statistics |-> results.statistics]

\* the state of the data path before a capture is handed to it
NoAnalysis ==
  [pc |-> "idle", flow_df |-> <<>>, synthetic |-> FALSE,
   processed_data |-> <<>>, classified_with |-> <<>>,
   predictions |-> <<>>, results |-> <<>>]

\* steps 1-2 of analyze_pcap_file: the capture is saved and the table of its
\* flows is extracted, or generated when extraction gave nothing usable
ExtractStep(features_df, num_flows) ==
  /\ analysis.pc = "idle"
  /\ analysis' = [analysis EXCEPT
                    !.pc = "extracted",
                    !.flow_df = ExtractFlowFeatures(features_df, num_flows).flow_df,
                    !.synthetic = ExtractFlowFeatures(features_df, num_flows).synthetic]

\* steps 3-4: _preprocess_data keeps one row per flow, then the rows are
\* classified; classified_with keeps what the classification was run with
ClassifyStep(attacks, failing, draw) ==
  /\ analysis.pc = "extracted"
  /\ \E processed_data \in {PreprocessData(analysis.flow_df)} :
       analysis' = [analysis EXCEPT
                      !.pc = "classified",
                      !.processed_data = processed_data,
                      !.classified_with =
                        [loaded |-> is_loaded, attacks |-> attacks,
                         failing |-> failing, draw |-> draw],
                      !.predictions =
                        GetModelPredictions(processed_data, is_loaded,
                                            attacks, failing, draw)]

\* step 5: the result of the analysis
AggregateStep ==
  /\ analysis.pc = "classified"
  /\ analysis' = [analysis EXCEPT
                    !.pc = "done",
                    !.results = GenerateAnalysisResults(analysis.flow_df,
                                  analysis.predictions, <<"a", "pcap">>, 1, now + 1)]

\* ---- the scanner as a system ----

\* no service function has been called on its own yet
NoCall == [op |-> "none"]

Init ==
  /\ is_scanning = FALSE
  /\ current_scan_session = None
  /\ scan_results = <<>>
  /\ scan_task = None
  /\ has_db \in BOOLEAN
  /\ sessions = <<>>
  /\ tasks = <<>>
  /\ is_loaded = FALSE
  /\ stops = [c \in StopCalls |-> IdleStop]
  /\ db_sessions = {}
  /\ db_results = {}
  /\ stopped = {}
  /\ now = 0
  /\ ret = [op |-> "init", kind |-> "None", sid |-> None, failed |-> FALSE]
  /\ analysis_status_store = <<>>
  /\ analysis_results_store = <<>>
  /\ background = <<>>
  /\ status_history = <<>>
  /\ temp_dirs = {}
  /\ analysis = NoAnalysis
  /\ call = NoCall

Start ==
  /\ \E settings \in IntervalSettings, user_id \in UserIds,
        artifacts_ok \in BOOLEAN :
       StartScanning(settings, user_id, artifacts_ok)
  /\ UNCHANGED jobVars

Stop == (\E c \in StopCalls : StopScanning(c)) /\ UNCHANGED jobVars

Resume == (\E c \in StopCalls : StopResume(c)) /\ UNCHANGED jobVars

InsertOne ==
  /\ \E c \in StopCalls, db_ok \in BOOLEAN : StopInsertOne(c, db_ok)
  /\ UNCHANGED jobVars

InsertMany ==
  /\ \E c \in StopCalls, db_ok \in BOOLEAN : StopInsertMany(c, db_ok)
  /\ UNCHANGED jobVars

Loop == (\E t \in SessionIds : ScanLoopStep(t)) /\ UNCHANGED jobVars

Next == Start \/ Stop \/ Resume \/ InsertOne \/ InsertMany \/ Loop

Spec == Init /\ [][Next]_vars

\* ---- the analysis jobs as a system ----

Upload ==
  /\ \E filename \in FileNames, size \in ContentSizes :
       UploadPcapFile(filename, size)
  /\ UNCHANGED <<analysis, call>>

\* an environment fault (a failed write, a failed rmtree) can happen only
\* where the call is made
Outcomes(called) == IF called THEN BOOLEAN ELSE {TRUE}

AnalyzeSync ==
  /\ \E filename \in FileNames, size \in ContentSizes :
       \E write_ok \in Outcomes(~SyncRejected(filename, size)
                                  /\ ~SaveRejected(filename)) :
         \E rmtree_ok \in Outcomes(~write_ok) :
           AnalyzePcapSync(filename, size, write_ok, rmtree_ok)
  /\ UNCHANGED <<analysis, call>>

SyncEnd ==
  /\ \E j \in JobIds, steps_ok \in BOOLEAN, rmtree_ok \in BOOLEAN :
       SyncFinish(j, steps_ok, rmtree_ok)
  /\ UNCHANGED <<analysis, call>>

ProcessBegin ==
  /\ \E j \in JobIds, write_ok \in BOOLEAN :
       \E rmtree_ok \in Outcomes(~write_ok) :
         ProcessStart(j, write_ok, rmtree_ok)
  /\ UNCHANGED <<analysis, call>>

ProcessEnd ==
  /\ \E j \in JobIds, steps_ok \in BOOLEAN, rmtree_ok \in BOOLEAN :
       ProcessFinish(j, steps_ok, rmtree_ok)
  /\ UNCHANGED <<analysis, call>>

Delete == (\E j \in JobIds : DeleteAnalysis(j)) /\ UNCHANGED <<analysis, call>>

NextJob ==
  Upload \/ AnalyzeSync \/ SyncEnd \/ ProcessBegin \/ ProcessEnd \/ Delete

\* the jobs never read the scanner's database handle
InitJob == Init /\ has_db = TRUE

SpecJob == InitJob /\ [][NextJob]_vars

\* Starlette runs every background task it was given, and an executor call
\* of the extraction returns: a scheduled job starts and a started one ends
SpecJobFair ==
  /\ InitJob
  /\ [][NextJob]_vars
  /\ WF_vars(ProcessBegin)
  /\ WF_vars(ProcessEnd)

\* ---- the reads of a job ----

\* the answer of a GET request
Answer(op, kind) == [op |-> op, kind |-> kind, sid |-> None, failed |-> FALSE]

\* get_analysis_status: 404, or the entry, of which the status is kept
GetAnalysisStatus(j) ==
  /\ ret' = Answer("get_analysis_status", get_analysis_status(j))
  /\ UNCHANGED <<scanVars, jobVars, now>>

\* get_analysis_results: the status code of the answer
GetAnalysisResults(j) ==
  /\ ret' = Answer("get_analysis_results", get_analysis_results(j))
  /\ UNCHANGED <<scanVars, jobVars, now>>

\* get_analysis_summary: 404 unless the results store holds the id
GetAnalysisSummary(j) ==
  /\ ret' = Answer("get_analysis_summary",
                   IF j \notin DOMAIN analysis_results_store THEN "404"
                   ELSE "200")
  /\ UNCHANGED <<scanVars, jobVars, now>>

\* get_analysis_threats: 404 unless the results store holds the id
GetAnalysisThreats(j) ==
  /\ ret' = Answer("get_analysis_threats",
                   IF j \notin DOMAIN analysis_results_store THEN "404"
                   ELSE "200")
  /\ UNCHANGED <<scanVars, jobVars, now>>

ReadStatus == \E j \in JobIds : GetAnalysisStatus(j)
ReadResults == \E j \in JobIds : GetAnalysisResults(j)
ReadSummary == \E j \in JobIds : GetAnalysisSummary(j)
ReadThreats == \E j \in JobIds : GetAnalysisThreats(j)

\* the requests that assign to a store and the background task, with the
\* reads between them
NextRead ==
  \/ Upload
  \/ ProcessBegin
  \/ ProcessEnd
  \/ Delete
  \/ ReadStatus
  \/ ReadResults
  \/ ReadSummary
  \/ ReadThreats

SpecRead == InitJob /\ [][NextRead]_vars

\* ---- one analysis as a system ----

\* the rows the classifier may call ATTACK: the first two, the first one
\* past the detailed slice, and the last
AttackCandidates(n) == {1, 2, detailed_limit + 1, MaxPredictions} \cap (1..n)

\* the batches whose scoring may fail: none, the first, or the last
FailingChoices(n, loaded) ==
  IF loaded THEN {{}, {1}, {BatchOf(n)}} ELSE {{}}

\* the draws of the mock predictions, made only when the classifier is not
\* loaded
DrawChoices(loaded) == IF loaded THEN {0} ELSE {0, 1, 2}

storeVars == <<analysis_status_store, analysis_results_store, background,
               status_history, temp_dirs>>

Extract ==
  /\ \E features_df \in ExtractorAnswers :
       \E num_flows \in (IF Usable(features_df)
                         THEN {Len(features_df.rows)} ELSE MockSizes) :
         ExtractStep(features_df, num_flows)
  /\ UNCHANGED <<scanVars, storeVars, now, ret, call>>

Classify ==
  /\ analysis.pc = "extracted"
  /\ \E attacks \in SUBSET AttackCandidates(Len(analysis.flow_df)) :
       \E failing \in FailingChoices(Len(analysis.flow_df), is_loaded) :
         \E draw \in DrawChoices(is_loaded) :
           ClassifyStep(attacks, failing, draw)
  /\ UNCHANGED <<scanVars, storeVars, now, ret, call>>

Aggregate ==
  /\ AggregateStep
  /\ UNCHANGED <<scanVars, storeVars, now, ret, call>>

\* start_scanning is the one caller of load_model
NextPipeline == Start \/ Extract \/ Classify \/ Aggregate

InitPipeline == Init /\ has_db = TRUE

SpecPipeline == InitPipeline /\ [][NextPipeline]_vars

\* ---- services/ai_model_service.py: the classifier called on its own ----

\* what model.predict and model.predict_proba answer for one vector: the
\* class, and the probabilities of class 0 and class 1 in hundredths
Verdicts ==
  <<[prediction |-> 1, probabilities |-> <<5, 95>>],
    [prediction |-> 0, probabilities |-> <<60, 40>>],
    [prediction |-> 0, probabilities |-> <<50, 50>>],
    [prediction |-> 1, probabilities |-> <<10, 90>>],
    [prediction |-> 1, probabilities |-> <<9, 91>>],
    [prediction |-> 0, probabilities |-> <<95, 5>>]>>

\* flow feature dictionaries handed to predict_flow_features and
\* predict_batch_features: the two keys _determine_threat_type reads are
\* present or absent
FeatureDicts ==
  <<("Dst Port" :> 22) @@ ("Flow Pkts/s" :> 500),
    ("Dst Port" :> 80) @@ ("Flow Pkts/s" :> 100),
    ("Dst Port" :> 443) @@ ("Flow Pkts/s" :> 101),
    ("Dst Port" :> 445),
    ("Dst Port" :> 53) @@ ("Flow Pkts/s" :> 500),
    ("Flow Duration" :> 7)>>

\* the destination ports of the NetworkFlow objects handed to
\* predict_single_flow and predict_batch_flows
FlowPorts == <<23, 8080, 139, 53, 443>>

\* preprocess_networkflow_data: of the thirty keys it sets, 'Dst Port' is
\* the one read later; it sets no 'Flow Pkts/s'
PreprocessNetworkflowData(dst_port) ==
  ("Dst Port" :> dst_port) @@ ("Fwd Pkt Len Min" :> 64)

\* the results loop of the two batch functions: result i is computed from
\* input i and from row i of predict and predict_proba
BatchResultsReversed(features_list, verdicts) ==
  [i \in 1..Len(features_list) |->
     ScoredOutput(features_list[i],
                  verdicts[Len(features_list) + 1 - i].prediction,
                  verdicts[Len(features_list) + 1 - i].probabilities)]

BatchResults(features_list, verdicts) ==
  [i \in 1..Len(features_list) |->
     ScoredOutput(features_list[i], verdicts[i].prediction,
                  verdicts[i].probabilities)]

\* predict_flow_features: raises before the try when the model is not
\* loaded; an exception inside the try (throws: of preprocess_flow_data, of
\* the scaler or of the model) gives the default
PredictFlowFeatures(loaded, flow_features, verdict, throws) ==
  IF ~loaded THEN [raised |-> TRUE, results |-> <<>>]
  ELSE IF throws THEN [raised |-> FALSE, results |-> <<DegradedDefault>>]
  ELSE [raised |-> FALSE,
        results |-> <<ScoredOutput(flow_features, verdict.prediction,
                                   verdict.probabilities)>>]

\* predict_single_flow with its result: the same steps over the features
\* preprocess_networkflow_data builds
PredictSingleFlow(loaded, dst_port, verdict, throws) ==
  PredictFlowFeatures(loaded, PreprocessNetworkflowData(dst_port), verdict,
                      throws)

\* predict_batch_features: one try around the whole batch; an exception
\* raised for any vector (throws is its index, 0 for none) is handled by
\* `return [default for _ in features_list]`
PredictBatchFeatures(loaded, features_list, verdicts, throws) ==
  IF ~loaded THEN [raised |-> TRUE, results |-> <<>>]
  ELSE IF features_list = <<>> THEN [raised |-> FALSE, results |-> <<>>]
  ELSE IF throws # 0
  THEN [raised |-> FALSE,
        results |-> [i \in 1..Len(features_list) |-> DegradedDefault]]
  ELSE [raised |-> FALSE, results |-> BatchResults(features_list, verdicts)]

\* predict_batch_flows: the same over the features of each flow
PredictBatchFlows(loaded, ports, verdicts, throws) ==
  PredictBatchFeatures(loaded,
                       [i \in 1..Len(ports) |->
                          PreprocessNetworkflowData(ports[i])],
                       verdicts, throws)

\* feature_mapping: the thirty model feature names, each with the
\* cicflowmeter column it is read from
Aliases ==
  <<<<"Destination Port", "Dst Port">>,
    <<"Flow Duration", "Flow Duration">>,
    <<"Fwd Packet Length Min", "Fwd Pkt Len Min">>,
    <<"Bwd Packet Length Max", "Bwd Pkt Len Max">>,
    <<"Bwd Packet Length Min", "Bwd Pkt Len Min">>,
    <<"Bwd Packet Length Mean", "Bwd Pkt Len Mean">>,
    <<"Bwd Packet Length Std", "Bwd Pkt Len Std">>,
    <<"Flow IAT Mean", "Flow IAT Mean">>,
    <<"Flow IAT Std", "Flow IAT Std">>,
    <<"Flow IAT Max", "Flow IAT Max">>,
    <<"Fwd IAT Total", "Fwd IAT Tot">>,
    <<"Fwd IAT Mean", "Fwd IAT Mean">>,
    <<"Fwd IAT Std", "Fwd IAT Std">>,
    <<"Fwd IAT Max", "Fwd IAT Max">>,
    <<"Bwd IAT Std", "Bwd IAT Std">>,
    <<"Bwd IAT Max", "Bwd IAT Max">>,
    <<"Min Packet Length", "Min Pkt Len">>,
    <<"Max Packet Length", "Max Pkt Len">>,
    <<"Packet Length Mean", "Pkt Len Mean">>,
    <<"Packet Length Std", "Pkt Len Std">>,
    <<"Packet Length Variance", "Pkt Len Var">>,
    <<"FIN Flag Count", "FIN Flag Cnt">>,
    <<"PSH Flag Count", "PSH Flag Cnt">>,
    <<"ACK Flag Count", "ACK Flag Cnt">>,
    <<"URG Flag Count", "URG Flag Cnt">>,
    <<"Average Packet Size", "Pkt Size Avg">>,
    <<"Avg Bwd Segment Size", "Bwd Seg Size Avg">>,
    <<"Idle Mean", "Idle Mean">>,
    <<"Idle Max", "Idle Max">>,
    <<"Idle Min", "Idle Min">>>>

ModelFeatureNames == {Aliases[k][1] : k \in DOMAIN Aliases}

ColumnOf(feature_name) ==
  Aliases[CHOOSE k \in DOMAIN Aliases : Aliases[k][1] = feature_name][2]

\* the values a flow feature dictionary may hold: a finite number, nan, an
\* infinity, None, or a text
Num(v) == [kind |-> "num", v |-> v]
NaN == [kind |-> "nan", v |-> 0]
PosInf == [kind |-> "inf", v |-> 0]
NegInf == [kind |-> "-inf", v |-> 0]
NoneValue == [kind |-> "None", v |-> 0]
Text == [kind |-> "text", v |-> 0]

\* `feature_mapping = {...}`: flow_features.get(column, 0) under each name
FeatureMapping(flow_features) ==
  [name \in ModelFeatureNames |-> Get(flow_features, ColumnOf(name), Num(0))]

\* `pd.isna(value) or np.isinf(value)`
IsNaOrInf(value) == value.kind \in {"nan", "None", "inf", "-inf"}

\* preprocess_flow_data: raises when selected_features is None or empty;
\* element k is the value mapped under the k-th configured name, 0 for a
\* name the mapping does not hold and for nan, None and the infinities;
\* np.isinf raises for a text
PreprocessFlowDataByColumn(selected_features, flow_features) ==
  IF selected_features = <<>> THEN [raised |-> TRUE, vector |-> <<>>]
  ELSE LET values == [k \in 1..Len(selected_features) |->
                        Get(flow_features, selected_features[k], Num(0))]
       IN  IF \E k \in 1..Len(selected_features) : values[k].kind = "text"
           THEN [raised |-> TRUE, vector |-> <<>>]
           ELSE [raised |-> FALSE,
                 vector |-> [k \in 1..Len(selected_features) |->
                               IF IsNaOrInf(values[k]) THEN 0
                               ELSE values[k].v]]

PreprocessFlowData(selected_features, flow_features) ==
  IF selected_features = <<>> THEN [raised |-> TRUE, vector |-> <<>>]
  ELSE LET feature_mapping == FeatureMapping(flow_features)
           values == [k \in 1..Len(selected_features) |->
                        Get(feature_mapping, selected_features[k], Num(0))]
       IN  IF \E k \in 1..Len(selected_features) : values[k].kind = "text"
           THEN [raised |-> TRUE, vector |-> <<>>]
           ELSE [raised |-> FALSE,
                 vector |-> [k \in 1..Len(selected_features) |->
                               IF IsNaOrInf(values[k]) THEN 0
                               ELSE values[k].v]]

\* ---- the classifier's functions as a system ----

\* A behaviour follows one call of one function: the functions keep no
\* state from one call to the next, so each call is made with no call
\* before it.

\* what the functions of the classifier leave alone
nonCallVars == <<scanVars, storeVars, analysis, now, ret>>

Rotated(seq, n, shift) == [i \in 1..n |-> Cycle(seq, i + shift)]

\* the features and confidences _determine_threat_type is called with:
\* every port a rule names and two it does not, packet rates and
\* confidences on both sides of the two comparisons
ThreatFeatures ==
  {("Dst Port" :> p) @@ ("Flow Pkts/s" :> r) :
     p \in {22, 23, 80, 443, 8080, 135, 139, 445, 53, 0}, r \in {0, 100, 101}}
  \cup {("Dst Port" :> 443), ("Flow Duration" :> 7)}

ThreatConfidences == {50, 90, 91, 95}

DetermineThreatTypeCall ==
  /\ call = NoCall
  /\ \E features \in ThreatFeatures, confidence \in ThreatConfidences :
       call' = [op |-> "_determine_threat_type", features |-> features,
                confidence |-> confidence,
                result |-> DetermineThreatType(features, confidence)]
  /\ UNCHANGED nonCallVars

PredictFlowFeaturesCall ==
  /\ call = NoCall
  /\ \E k \in DOMAIN FeatureDicts, v \in DOMAIN Verdicts, throws \in BOOLEAN :
       LET answer == PredictFlowFeatures(is_loaded, FeatureDicts[k],
                                         Verdicts[v], throws)
       IN  call' = [op |-> "predict_flow_features",
                    features_list |-> <<FeatureDicts[k]>>,
                    verdicts |-> <<Verdicts[v]>>,
                    throws |-> IF throws THEN 1 ELSE 0,
                    raised |-> answer.raised, results |-> answer.results]
  /\ UNCHANGED nonCallVars

PredictSingleFlowCall ==
  /\ call = NoCall
  /\ \E k \in DOMAIN FlowPorts, v \in DOMAIN Verdicts, throws \in BOOLEAN :
       LET answer == PredictSingleFlow(is_loaded, FlowPorts[k], Verdicts[v],
                                       throws)
       IN  call' = [op |-> "predict_single_flow",
                    features_list |-> <<PreprocessNetworkflowData(FlowPorts[k])>>,
                    verdicts |-> <<Verdicts[v]>>,
                    throws |-> IF throws THEN 1 ELSE 0,
                    raised |-> answer.raised, results |-> answer.results]
  /\ UNCHANGED nonCallVars

PredictBatchFeaturesCall ==
  /\ call = NoCall
  /\ \E n \in 0..MaxVectors, shift \in {0, 1}, v \in DOMAIN Verdicts :
       \E throws \in 0..n :
         LET features_list == Rotated(FeatureDicts, n, shift)
             verdicts == Rotated(Verdicts, n, v)
             answer == PredictBatchFeatures(is_loaded, features_list,
                                            verdicts, throws)
         IN  call' = [op |-> "predict_batch_features",
                      features_list |-> features_list, verdicts |-> verdicts,
                      throws |-> throws, raised |-> answer.raised,
                      results |-> answer.results]
  /\ UNCHANGED nonCallVars

PredictBatchFlowsCall ==
  /\ call = NoCall
  /\ \E n \in 0..MaxVectors, shift \in {0, 1}, v \in DOMAIN Verdicts :
       \E throws \in 0..n :
         LET ports == Rotated(FlowPorts, n, shift)
             verdicts == Rotated(Verdicts, n, v)
             answer == PredictBatchFlows(is_loaded, ports, verdicts, throws)
         IN  call' = [op |-> "predict_batch_flows",
                      features_list |->
                        [i \in 1..n |-> PreprocessNetworkflowData(ports[i])],
                      verdicts |-> verdicts, throws |-> throws,
                      raised |-> answer.raised, results |-> answer.results]
  /\ UNCHANGED nonCallVars

\* the configured feature list of selected_features.json: in the order of
\* the mapping, in another order, with a name the mapping does not hold,
\* and empty
SelectedFeatureLists ==
  {<<"Destination Port", "Flow Duration", "Fwd IAT Total">>,
   <<"Fwd IAT Total", "Destination Port">>,
   <<"Idle Min", "Flow Duration", "Packet Count", "Destination Port">>,
   <<>>}

FeatureValues == {Num(80), Num(7), NaN, PosInf, NegInf, NoneValue, Text}

\* flow feature dictionaries: each of three columns absent or holding one
\* of the values
FlowFeatureInputs ==
  UNION {[columns -> FeatureValues] :
           columns \in SUBSET {"Dst Port", "Flow Duration", "Fwd IAT Tot"}}

PreprocessFlowDataCall ==
  /\ call = NoCall
  /\ \E selected_features \in SelectedFeatureLists,
        flow_features \in FlowFeatureInputs :
       LET answer == PreprocessFlowData(selected_features, flow_features)
       IN  call' = [op |-> "preprocess_flow_data",
                    selected_features |-> selected_features,
                    flow_features |-> flow_features,
                    raised |-> answer.raised, vector |-> answer.vector]
  /\ UNCHANGED nonCallVars

\* start_scanning is the one caller of load_model
NextClassifier ==
  \/ Start
  \/ DetermineThreatTypeCall
  \/ PredictFlowFeaturesCall
  \/ PredictSingleFlowCall
  \/ PredictBatchFeaturesCall
  \/ PredictBatchFlowsCall
  \/ PreprocessFlowDataCall

InitClassifier == Init /\ has_db = TRUE

SpecClassifier == InitClassifier /\ [][NextClassifier]_vars

\* ---- services/cicflow_extractor.py ----

\* the code points of the characters of a dotted address
CodePoint ==
  ("." :> 46) @@ ("0" :> 48) @@ ("1" :> 49) @@ ("2" :> 50) @@ ("9" :> 57)

\* `s < t` of two Python strings, each a sequence of characters: the first
\* differing character decides, a proper prefix is the smaller
RECURSIVE StrLess(_, _)
StrLess(s, t) ==
  IF t = <<>> THEN FALSE
  ELSE IF s = <<>> THEN TRUE
  ELSE IF Head(s) = Head(t) THEN StrLess(Tail(s), Tail(t))
  ELSE CodePoint[Head(s)] < CodePoint[Head(t)]

\* `(ip, port) < (other_ip, other_port)` of two Python tuples
TupleLess(ip, port, other_ip, other_port) ==
  IF ip = other_ip THEN port < other_port ELSE StrLess(ip, other_ip)

\* the f-string of _create_flow_key: five parts joined by underscores
JoinedKey(ip, port, other_ip, other_port, protocol) ==
  <<ip, "_", port, "_", other_ip, "_", other_port, "_", protocol>>

\* _create_flow_key
CreateFlowKeySourceFirst(src_ip, dst_ip, src_port, dst_port, protocol) ==
  JoinedKey(src_ip, src_port, dst_ip, dst_port, protocol)

CreateFlowKey(src_ip, dst_ip, src_port, dst_port, protocol) ==
  IF TupleLess(src_ip, src_port, dst_ip, dst_port)
  THEN JoinedKey(src_ip, src_port, dst_ip, dst_port, protocol)
  ELSE JoinedKey(dst_ip, dst_port, src_ip, src_port, protocol)

\* the flow key of one packet that has an IP layer: the ports are those of
\* its TCP or UDP layer, 0 when it has neither
PacketKey(packet) ==
  CreateFlowKey(packet.src, packet.dst,
                IF packet.transport THEN packet.sport ELSE 0,
                IF packet.transport THEN packet.dport ELSE 0,
                packet.proto)

\* flows[flow_key].append(packet) on the list of (key, packets) items, a
\* new key going to the end as in a dict
AppendToFlow(flows, flow_key, packet) ==
  IF \E k \in DOMAIN flows : flows[k][1] = flow_key
  THEN [k \in DOMAIN flows |->
          IF flows[k][1] = flow_key
          THEN <<flow_key, Append(flows[k][2], packet)>> ELSE flows[k]]
  ELSE Append(flows, <<flow_key, <<packet>>>>)

\* _group_packets_into_flows: the packets with an IP layer, each appended
\* to the flow of its key, in the order of the capture (the batches of
\* batch_size packets are merged by extend in the same order)
RECURSIVE GroupPacketsIntoFlows(_, _)
GroupPacketsIntoFlows(packets, flows) ==
  IF packets = <<>> THEN flows
  ELSE GroupPacketsIntoFlows(
         Tail(packets),
         IF Head(packets).ip
         THEN AppendToFlow(flows, PacketKey(Head(packets)), Head(packets))
         ELSE flows)

\* sorted(packets, key=lambda p: float(p.time)): stable, by insertion
RECURSIVE InsertByTime(_, _)
InsertByTime(sorted, packet) ==
  IF sorted = <<>> THEN <<packet>>
  ELSE IF sorted[Len(sorted)].time <= packet.time THEN Append(sorted, packet)
  ELSE Append(InsertByTime(SubSeq(sorted, 1, Len(sorted) - 1), packet),
              sorted[Len(sorted)])

RECURSIVE SortedByTime(_)
SortedByTime(packets) ==
  IF packets = <<>> THEN <<>>
  ELSE InsertByTime(SortedByTime(SubSeq(packets, 1, Len(packets) - 1)),
                    packets[Len(packets)])

\* the packets of a direction, in order: forward are those whose source
\* address is that of the earliest packet, backward the others
RECURSIVE SelectIgnoringDirection(_, _, _)
SelectIgnoringDirection(packets, flow_src_ip, forward) ==
  IF packets = <<>> THEN <<>>
  ELSE IF Head(packets).ip
  THEN <<Head(packets)>>
       \o SelectIgnoringDirection(Tail(packets), flow_src_ip, forward)
  ELSE SelectIgnoringDirection(Tail(packets), flow_src_ip, forward)

RECURSIVE Select(_, _, _)
Select(packets, flow_src_ip, forward) ==
  IF packets = <<>> THEN <<>>
  ELSE IF Head(packets).ip /\ ((Head(packets).src = flow_src_ip) = forward)
  THEN <<Head(packets)>> \o Select(Tail(packets), flow_src_ip, forward)
  ELSE Select(Tail(packets), flow_src_ip, forward)

RECURSIVE SumLen(_)
SumLen(packets) ==
  IF packets = <<>> THEN 0 ELSE Head(packets).len + SumLen(Tail(packets))

RECURSIVE MaxLenOf(_)
MaxLenOf(packets) ==
  IF packets = <<>> THEN 0
  ELSE IF Head(packets).len >= MaxLenOf(Tail(packets)) THEN Head(packets).len
  ELSE MaxLenOf(Tail(packets))

RECURSIVE MinLenOf(_)
MinLenOf(packets) ==
  IF packets = <<>> THEN 0
  ELSE IF Tail(packets) = <<>> THEN Head(packets).len
  ELSE IF Head(packets).len <= MinLenOf(Tail(packets)) THEN Head(packets).len
  ELSE MinLenOf(Tail(packets))

\* `np.mean(lengths) if lengths else 0` as the exact quotient
MeanLen(packets) ==
  IF packets = <<>> THEN [num |-> 0, den |-> 1]
  ELSE [num |-> SumLen(packets), den |-> Len(packets)]

\* the statistics of one direction under the prefix of its column names
DirectionFeatures(direction, packets) ==
  (("Tot " \o direction \o " Pkts") :> Len(packets))
  @@ (("TotLen " \o direction \o " Pkts") :> SumLen(packets))
  @@ ((direction \o " Pkt Len Max") :> MaxLenOf(packets))
  @@ ((direction \o " Pkt Len Min") :> MinLenOf(packets))
  @@ ((direction \o " Pkt Len Mean") :> MeanLen(packets))

\* _extract_flow_features for a flow that has packets and a key of five
\* parts: the endpoints of the key, the duration between the earliest and
\* the latest packet (times are held in microseconds), and the packets
\* split by the source address of the earliest one
FlowFeatures(flow_key, packets) ==
  LET sorted == SortedByTime(packets)
      first_packet == sorted[1]
      fwd_packets == IF first_packet.ip
                     THEN Select(sorted, first_packet.src, TRUE) ELSE <<>>
      bwd_packets == IF first_packet.ip
                     THEN Select(sorted, first_packet.src, FALSE) ELSE <<>>
  IN  ("Flow ID" :> flow_key)
      @@ ("Src IP" :> flow_key[1]) @@ ("Src Port" :> flow_key[3])
      @@ ("Dst IP" :> flow_key[5]) @@ ("Dst Port" :> flow_key[7])
      @@ ("Protocol" :> flow_key[9])
      @@ ("Flow Duration" :>
            IF Len(sorted) > 1 THEN sorted[Len(sorted)].time - first_packet.time
            ELSE 0)
      @@ DirectionFeatures("Fwd", fwd_packets)
      @@ DirectionFeatures("Bwd", bwd_packets)

\* self.max_workers = min(multiprocessing.cpu_count(), 4)
WorkerCounts == 1..4

\* chunk_size = max(1, len(flow_items) // self.max_workers)
ChunkSize(n, max_workers) ==
  IF n \div max_workers >= 1 THEN n \div max_workers ELSE 1

\* [flow_items[i:i + chunk_size] for i in range(0, len(flow_items), chunk_size)]
FlowChunks(flow_items, chunk_size) ==
  [c \in 1..((Len(flow_items) + chunk_size - 1) \div chunk_size) |->
     SubSeq(flow_items, (c - 1) * chunk_size + 1,
            IF c * chunk_size <= Len(flow_items) THEN c * chunk_size
            ELSE Len(flow_items))]

\* _process_flow_chunk: the features of each flow of the chunk, in order; a
\* flow whose computation raises or gives None (its key is in failing) is
\* passed over
ProcessFlowChunkAllOrNothing(flow_chunk, failing) ==
  IF \E k \in DOMAIN flow_chunk : flow_chunk[k][1] \in failing THEN <<>>
  ELSE [k \in DOMAIN flow_chunk |->
          FlowFeatures(flow_chunk[k][1], flow_chunk[k][2])]

RECURSIVE ProcessFlowChunk(_, _)
ProcessFlowChunk(flow_chunk, failing) ==
  IF flow_chunk = <<>> THEN <<>>
  ELSE (IF Head(flow_chunk)[1] \in failing THEN <<>>
        ELSE <<FlowFeatures(Head(flow_chunk)[1], Head(flow_chunk)[2])>>)
       \o ProcessFlowChunk(Tail(flow_chunk), failing)

\* the loop over chunk_results: the list of a chunk is appended, a chunk
\* whose future gave an exception (its number is in failed_units) is
\* passed over
RECURSIVE CombineResults(_, _, _, _)
CombineResults(flow_chunks, c, failing, failed_units) ==
  IF c > Len(flow_chunks) THEN <<>>
  ELSE (IF c \in failed_units THEN <<>>
        ELSE ProcessFlowChunk(flow_chunks[c], failing))
       \o CombineResults(flow_chunks, c + 1, failing, failed_units)

\* _extract_features_parallel: the rows of the table it returns, none for
\* the empty table
ExtractFeaturesParallel(flows, max_workers, failing, failed_units) ==
  IF flows = <<>> THEN <<>>
  ELSE CombineResults(FlowChunks(flows, ChunkSize(Len(flows), max_workers)),
                      1, failing, failed_units)

\* ---- the extractor's functions as a system ----

\* dotted addresses as sequences of characters: as strings the first is
\* the smallest, as numbers the second
ClientIp == <<"1", "0", ".", "0", ".", "0", ".", "1">>
ServerIp == <<"9", ".", "0", ".", "0", ".", "1">>
OtherIp == <<"1", "0", ".", "0", ".", "0", ".", "1", "0">>

Endpoints ==
  {[ip |-> ip, port |-> port] :
     ip \in {ClientIp, ServerIp, OtherIp}, port \in {0, 80, 51000}}

\* IP protocol numbers: TCP and UDP
Protocols == {6, 17}

CreateFlowKeyCall ==
  /\ call = NoCall
  /\ \E a \in Endpoints, b \in Endpoints, protocol \in Protocols :
       call' = [op |-> "_create_flow_key", src_ip |-> a.ip, dst_ip |-> b.ip,
                src_port |-> a.port, dst_port |-> b.port,
                protocol |-> protocol,
                key |-> CreateFlowKey(a.ip, b.ip, a.port, b.port, protocol)]
  /\ UNCHANGED nonCallVars

\* the packets of a capture: client to server, server to client, another
\* client to the server, the client to the server with no TCP or UDP
\* layer, and a frame with no IP layer
PacketKinds ==
  {[ip |-> TRUE, src |-> ClientIp, dst |-> ServerIp, proto |-> 6,
    transport |-> TRUE, sport |-> 51000, dport |-> 80],
   [ip |-> TRUE, src |-> ServerIp, dst |-> ClientIp, proto |-> 6,
    transport |-> TRUE, sport |-> 80, dport |-> 51000],
   [ip |-> TRUE, src |-> OtherIp, dst |-> ServerIp, proto |-> 6,
    transport |-> TRUE, sport |-> 51000, dport |-> 80],
   [ip |-> TRUE, src |-> ClientIp, dst |-> ServerIp, proto |-> 1,
    transport |-> FALSE, sport |-> 0, dport |-> 0],
   [ip |-> FALSE, src |-> ClientIp, dst |-> ServerIp, proto |-> 0,
    transport |-> FALSE, sport |-> 0, dport |-> 0]}

\* len(packet)
PacketLengths == {64, 128}

\* packet i of a capture of n packets, a millisecond apart, stored in the
\* order of time or against it
Stamped(kind, length, i, n, ascending) ==
  [ip |-> kind.ip, src |-> kind.src, dst |-> kind.dst, proto |-> kind.proto,
   transport |-> kind.transport, sport |-> kind.sport, dport |-> kind.dport,
   len |-> length,
   time |-> IF ascending THEN (i - 1) * 1000 ELSE (n - i) * 1000]

\* _group_packets_into_flows, then _extract_features_parallel with no unit
\* and no flow failing
ExtractCall ==
  /\ call = NoCall
  /\ \E n \in 0..MaxPackets, ascending \in BOOLEAN :
       \E kinds \in [1..n -> PacketKinds], lengths \in [1..n -> PacketLengths],
          max_workers \in WorkerCounts :
         LET packets == [i \in 1..n |->
                           Stamped(kinds[i], lengths[i], i, n, ascending)]
             flows == GroupPacketsIntoFlows(packets, <<>>)
         IN  call' = [op |-> "extract_features_from_pcap",
                      packets |-> packets, flows |-> flows,
                      rows |-> ExtractFeaturesParallel(flows, max_workers,
                                                      {}, {})]
  /\ UNCHANGED nonCallVars

\* flow i of a capture of single-packet flows, each from its own source
\* port
SingleFlow(i) ==
  LET packet == [ip |-> TRUE, src |-> ClientIp, dst |-> ServerIp,
                 proto |-> 6, transport |-> TRUE, sport |-> 51000 + i,
                 dport |-> 80, len |-> 64, time |-> i * 1000]
  IN  <<PacketKey(packet), <<packet>>>>

\* _extract_features_parallel over n flows, where the computation of some
\* flows fails and the future of some chunks gives an exception
ParallelCall ==
  /\ call = NoCall
  /\ \E n \in 0..MaxExtracted, max_workers \in WorkerCounts :
       LET flows == [i \in 1..n |-> SingleFlow(i)]
           chunks == FlowChunks(flows, ChunkSize(n, max_workers))
       IN  \E failing \in SUBSET {flows[i][1] : i \in 1..n},
              failed_units \in SUBSET DOMAIN chunks :
             call' = [op |-> "_extract_features_parallel", flows |-> flows,
                      max_workers |-> max_workers, failing |-> failing,
                      failed_units |-> failed_units,
                      rows |-> ExtractFeaturesParallel(flows, max_workers,
                                                      failing, failed_units)]
  /\ UNCHANGED nonCallVars

NextExtractor == CreateFlowKeyCall \/ ExtractCall \/ ParallelCall

InitExtractor == Init /\ has_db = TRUE

SpecExtractor == InitExtractor /\ [][NextExtractor]_vars

\* ---- properties of the scan session controller ----

SessionSet == DOMAIN sessions

RunningSessions == {s \in SessionSet : sessions[s].status = "RUNNING"}

AliveTasks == {t \in 1..Len(tasks) : TaskAlive(tasks[t])}

StopReturned ==
  /\ ret.op \in {"stop_scanning", "stop_scanning resumed"}
  /\ ret.kind = "session"

\* C1: a start_scanning call made while is_scanning is true raises, and the
\* step changes nothing: the flag, the current session, every session
\* object, the result buffer, the task reference, every task and the
\* classifier's load state are as before.
C1_StartWhileScanningRejected ==
  [][(is_scanning /\ ret'.op = "start_scanning") =>
       /\ ret'.kind = "raise"
       /\ UNCHANGED <<is_scanning, current_scan_session, scan_results,
                      scan_task, sessions, tasks, is_loaded, stops>>]_vars

\* a rejected start, with the running session having counted flows
C1_Witness ==
  /\ ret.op = "start_scanning"
  /\ ret.kind = "raise"
  /\ is_scanning
  /\ sessions[current_scan_session].total_flows > 0
  /\ tasks[scan_task].state = "sleep"

\* C2: at most one session has status RUNNING and at most one cycle task
\* is alive, in every reachable state.
C2_SingleRunningSession ==
  /\ Cardinality(RunningSessions) <= 1
  /\ Cardinality(AliveTasks) <= 1

\* C3: in every state another coroutine can observe, every session has
\* total_flows = benign_count + attack_count.
C3_CountersAgree ==
  \A s \in SessionSet :
    sessions[s].total_flows = sessions[s].benign_count + sessions[s].attack_count

\* a stopped session that counted a benign and an attack flow
C3_Witness ==
  \E s \in SessionSet :
    /\ sessions[s].status = "COMPLETED"
    /\ sessions[s].benign_count > 0
    /\ sessions[s].attack_count > 0

\* C4: when a stop_scanning call that found the controller scanning returns,
\* is_scanning is false and the returned session is COMPLETED with an
\* end_time.
C4_StopFinalizesSession ==
  StopReturned =>
    /\ ~is_scanning
    /\ sessions[ret.sid].status = "COMPLETED"
    /\ sessions[ret.sid].end_time # None

\* C5: a stop_scanning call made while is_scanning is false returns None and
\* the step changes no state of the controller, of its sessions and tasks,
\* or of the clock.
C5_StopWhenIdleIsNoOp ==
  [][(~is_scanning /\ ret'.op = "stop_scanning") =>
       /\ ret'.kind = "None"
       /\ UNCHANGED <<scanVars, now>>]_vars

\* a no-op stop on a controller that still holds a finalized session
C5_Witness ==
  /\ ret.op = "stop_scanning"
  /\ ret.kind = "None"
  /\ current_scan_session # None
  /\ sessions[current_scan_session].status = "COMPLETED"
  /\ scan_results # <<>>

\* C6: once stop_scanning has returned a session, the counters of that
\* session and the result buffer it was filling never change again.
C6_StoppedSessionFrozen ==
  [][\A s \in stopped \cap SessionSet \cap DOMAIN sessions' :
       /\ sessions'[s].total_flows = sessions[s].total_flows
       /\ sessions'[s].benign_count = sessions[s].benign_count
       /\ sessions'[s].attack_count = sessions[s].attack_count
       /\ (s = current_scan_session /\ s = current_scan_session') =>
            scan_results' = scan_results]_vars

\* C7: a session whose status is no longer RUNNING keeps that status in
\* every later step, and a status is one of RUNNING, COMPLETED, STOPPED.
C7_StatusFinal ==
  [][\A s \in SessionSet \cap DOMAIN sessions' :
       /\ sessions'[s].status \in {"RUNNING", "COMPLETED", "STOPPED"}
       /\ sessions[s].status # "RUNNING" =>
            sessions'[s].status = sessions[s].status]_vars

\* a session that is already COMPLETED is being stopped once more: its
\* cycle task was alive and is now cancelled
C7_Witness ==
  /\ ret.op = "stop_scanning"
  /\ ret.kind = "await"
  /\ sessions[current_scan_session].status = "COMPLETED"
  /\ sessions[current_scan_session].total_flows > 0
  /\ tasks[scan_task].must_cancel

C9_StartEnsuresLoaded ==
  (ret.op = "start_scanning" /\ ret.kind = "session") => is_loaded

\* ---- properties of the analysis jobs ----

JobPaths == {<<"queued">>, <<"queued", "processing">>,
             <<"queued", "processing", "completed">>,
             <<"queued", "processing", "failed">>}

\* C10: the values assigned to a job's status, in order, are a prefix of
\* queued, processing, completed or of queued, processing, failed, and the
\* stored status is the last of them.
C10_JobStatusMonotonic ==
  \A j \in {k \in 1..Len(status_history) : background[k].mode = "async"} :
    /\ status_history[j] \in JobPaths
    /\ j \in DOMAIN analysis_status_store =>
         analysis_status_store[j].status =
           status_history[j][Len(status_history[j])]

\* one job failed and another completed
C10_Witness ==
  \E j, k \in DOMAIN analysis_status_store :
    /\ analysis_status_store[j].status = "failed"
    /\ analysis_status_store[k].status = "completed"

\* the activations of analyze_pcap_file that have ended
Ended == {j \in 1..Len(background) : background[j].outcome # "none"}

\* C11: every accepted job whose background task is scheduled eventually
\* has a status entry that is completed or failed with completed_at set,
\* and a failed one carries the failure text in its message.
C11_JobReachesTerminal ==
  \A j \in JobIds :
    (j <= Len(background) /\ background[j].mode = "async"
       /\ background[j].pc = "scheduled")
    ~> (/\ j \in DOMAIN analysis_status_store
        /\ analysis_status_store[j].status \in {"completed", "failed"}
        /\ analysis_status_store[j].completed_at # None
        /\ analysis_status_store[j].status = "failed" =>
             analysis_status_store[j].message = "Analysis failed")

\* C12: no request whose filename ends in a dot and an unsupported
\* extension is ever accepted: no activation of the pipeline and no status
\* entry exists for such a filename; and a run whose filename
\* _save_temp_file rejects has no temporary directory, never reaches the
\* extraction and produces no result.
C12_UnsupportedExtensionRejected ==
  /\ DOMAIN analysis_status_store \subseteq 1..Len(background)
  /\ \A j \in 1..Len(background) :
       LET filename == background[j].filename
       IN /\ ~(/\ Len(filename) >= 2
               /\ Lower(filename[Len(filename)]) \notin valid_extensions)
          /\ SaveRejected(filename) =>
               /\ j \notin temp_dirs
               /\ background[j].pc # "extracting"
               /\ background[j].outcome # "result"

\* a .pdf request has just been refused while an accepted job is being
\* extracted, and a job whose name the analyzer rejects has failed
C12_Witness ==
  /\ ret.op \in {"upload_pcap_file", "analyze_pcap_sync"}
  /\ ret.kind = "400 Invalid file type"
  /\ \E j, k \in 1..Len(background) :
       /\ background[j].pc = "extracting"
       /\ SaveRejected(background[k].filename)
       /\ background[k].outcome = "raise"

\* C13: no run of the pipeline on zero-length content writes a file, reaches
\* the extraction or produces a result.
C13_EmptyContentRejected ==
  \A j \in 1..Len(background) :
    background[j].empty =>
      /\ j \notin temp_dirs
      /\ background[j].pc # "extracting"
      /\ background[j].outcome # "result"

\* C15: a run that reached classification with the classifier not loaded
\* raised, its job is failed and no result is stored for it.
C15_UnloadedClassifierFailsJob ==
  \A j \in Ended :
    background[j].unloaded =>
      /\ background[j].outcome = "raise"
      /\ j \notin DOMAIN analysis_results_store
      /\ j \in DOMAIN analysis_status_store =>
           analysis_status_store[j].status = "failed"

\* C16 as stated: once analyze_pcap_file has ended, by a return or a raise,
\* the directory scoped to its analysis id does not exist.
C16_TempDirRemoved ==
  \A j \in Ended : j \notin temp_dirs

\* C16: once analyze_pcap_file has ended, by a return or a raise, the
\* directory scoped to its analysis id does not exist unless shutil.rmtree
\* itself failed in the cleanup of that run.
C16_TempDirRemovedUnlessRmtreeFailed ==
  \A j \in Ended : j \in temp_dirs => background[j].rmtree_failed

\* one run returned a result and one raised after its directory had been
\* created, and neither directory exists any more
C16_Witness ==
  \E j, k \in Ended :
    /\ background[j].outcome = "result"
    /\ background[k].outcome = "raise"
    /\ ~SaveRejected(background[k].filename)
    /\ temp_dirs = {}

\* C17: for every analysis id and every outcome of the two removals, a
\* first and a second call of _cleanup_temp_files do not raise; a call for an
\* id without a directory changes nothing; and the second call leaves what
\* the first left, unless the first removal failed and the second succeeded;
\* and a run whose steps all succeed does not raise, whatever the removal
\* does.
C17_CleanupIdempotent ==
  \A analysis_id \in JobIds, ok1 \in BOOLEAN, ok2 \in BOOLEAN :
    LET once == CleanupTempFiles(temp_dirs, analysis_id, ok1)
        twice == CleanupTempFiles(once.temp_dirs, analysis_id, ok2)
    IN /\ ~once.raised
       /\ ~twice.raised
       /\ once.temp_dirs \subseteq temp_dirs
       /\ temp_dirs \ once.temp_dirs \subseteq {analysis_id}
       /\ analysis_id \notin temp_dirs => once.temp_dirs = temp_dirs
       /\ (ok1 \/ ~ok2) => twice.temp_dirs = once.temp_dirs
       /\ ~AnalyzeEnd(temp_dirs, analysis_id, is_loaded, TRUE, ok1).raised

\* a job whose removal failed has completed with its result stored, its
\* directory is still there, and another id has no directory
C17_Witness ==
  \E j \in Ended, k \in JobIds :
    /\ background[j].rmtree_failed
    /\ j \in temp_dirs
    /\ j \in DOMAIN analysis_results_store
    /\ j \in DOMAIN analysis_status_store
    /\ analysis_status_store[j].status = "completed"
    /\ k \notin temp_dirs

\* ---- properties of the data path ----

\* the result of the analysis that has ended, and what it was computed from
Done == analysis.pc = "done"
Results == analysis.results
Predictions == analysis.predictions
FlowTable == analysis.flow_df
Attacks == {i \in 1..Len(Predictions) : Predictions[i].classification = "ATTACK"}
Benigns == {i \in 1..Len(Predictions) : Predictions[i].classification = "BENIGN"}
EndpointsOf(i) == {FlowTable[i]["Src IP"], FlowTable[i]["Dst IP"]} \ {"Unknown"}

\* C14: a result computed from the generated sample flows is marked as such:
\* what the service answers for it differs from what it answers for a
\* capture whose extracted flows have the same addresses and verdicts
C14_SyntheticResultMarked ==
  (Done /\ analysis.synthetic) =>
    get_analysis_summary(Results)
      # get_analysis_summary(
          GenerateAnalysisResults(ExtractedTable(Len(FlowTable)), Predictions,
                                  Results.filename, Results.analysis_id,
                                  Results.timestamp))

\* C18: the summary and the threat aggregates cover all n predictions, also
\* past the first hundred: total_flows = n = benign_flows + malicious_flows,
\* every ATTACK row's addresses and threat type are in the aggregates, and
\* detailed_results has min(n, 100) entries
C18_AggregatesCoverAllPredictions ==
  Done =>
    /\ Results.summary.total_flows = Len(Predictions)
    /\ Results.summary.benign_flows = Cardinality(Benigns)
    /\ Results.summary.malicious_flows = Cardinality(Attacks)
    /\ Results.summary.total_flows
         = Results.summary.benign_flows + Results.summary.malicious_flows
    /\ Results.statistics.flows_analyzed = Len(Predictions)
    /\ \A i \in Attacks :
         /\ EndpointsOf(i) \subseteq Results.threats.malicious_ips
         /\ Predictions[i].threat_type # NoThreatType =>
              \E k \in 1..Len(Results.threats.threat_types) :
                /\ Results.threats.threat_types[k][1] = Predictions[i].threat_type
                /\ Results.threats.threat_types[k][2]
                     = Cardinality({a \in Attacks : Predictions[a].threat_type
                                                      = Predictions[i].threat_type})
    /\ Len(Results.detailed_results) <= detailed_limit
    /\ Len(Results.detailed_results)
         = (IF Len(Predictions) < detailed_limit
            THEN Len(Predictions) ELSE detailed_limit)

\* a result whose only ATTACK row lies past the detailed slice
C18_Witness ==
  /\ Done
  /\ Len(Predictions) > detailed_limit
  /\ Attacks = {detailed_limit + 1}
  /\ Results.summary.malicious_flows = 1
  /\ Results.threats.malicious_ips = EndpointsOf(detailed_limit + 1)
  /\ Len(Results.threats.threat_types) = 1
  /\ Len(Results.detailed_results) = detailed_limit

\* C19: overall_status follows the malicious percentage p with strict
\* thresholds: p > 20 CRITICAL, else p > 10 WARNING, else p > 5 SUSPICIOUS,
\* else CLEAN; p exactly 20 gives WARNING, exactly 10 SUSPICIOUS, exactly 5
\* CLEAN, and no prediction at all gives CLEAN
C19_OverallStatusThresholds ==
  /\ GenerateAnalysisResults(<<>>, <<>>, <<"a", "pcap">>, 1, now)
       .summary.overall_status = "CLEAN"
  /\ Done =>
       LET p == 100 * Cardinality(Attacks)
           n == Len(Predictions)
           status == Results.summary.overall_status
       IN  /\ (p > critical_threshold * n) => status = "CRITICAL"
           /\ (p <= critical_threshold * n /\ p > warning_threshold * n)
                => status = "WARNING"
           /\ (p <= warning_threshold * n /\ p > suspicious_threshold * n)
                => status = "SUSPICIOUS"
           /\ (p <= suspicious_threshold * n) => status = "CLEAN"
           /\ (p = critical_threshold * n) => status = "WARNING"
           /\ (p = warning_threshold * n) => status = "SUSPICIOUS"
           /\ (p = suspicious_threshold * n) => status = "CLEAN"

\* a result whose malicious percentage is exactly the CRITICAL threshold
C19_Witness ==
  /\ Done
  /\ Attacks # {}
  /\ 100 * Cardinality(Attacks) = critical_threshold * Len(Predictions)
  /\ Results.summary.overall_status = "WARNING"

\* C20: malicious_ips holds exactly the source and destination addresses of
\* the ATTACK rows: each of its addresses is an endpoint of some ATTACK row,
\* both endpoints of every ATTACK row are in it, and an address seen only in
\* BENIGN rows is not
C20_MaliciousIpsAreAttackEndpoints ==
  Done =>
    /\ \A ip \in Results.threats.malicious_ips :
         \E i \in Attacks : ip \in EndpointsOf(i)
    /\ \A i \in Attacks : EndpointsOf(i) \subseteq Results.threats.malicious_ips
    /\ \A i \in Benigns :
         \A ip \in EndpointsOf(i) :
           (\A a \in Attacks : ip \notin EndpointsOf(a))
             => ip \notin Results.threats.malicious_ips

\* a result with an ATTACK row and an address seen only in BENIGN rows
C20_Witness ==
  /\ Done
  /\ Attacks # {}
  /\ Results.threats.malicious_ips # {}
  /\ \E i \in Benigns :
       \E ip \in EndpointsOf(i) :
         /\ \A a \in Attacks : ip \notin EndpointsOf(a)
         /\ ip \notin Results.threats.malicious_ips

\* ---- properties of the classification results ----

\* the fields of one ClassificationResult agree with each other
WellFormed(result) ==
  /\ result.confidence \in 0..100
  /\ result.risk_score \in 0..100
  /\ (result.threat_type # NoThreatType) <=> (result.classification = "ATTACK")
  /\ result.risk_score = IF result.classification = "ATTACK"
                         THEN result.confidence
                         ELSE 100 - result.confidence

\* C21: every classification result an analysis holds, whether it was
\* scored by the classifier, is the degraded default of a failed batch or
\* is a mock prediction of the fallback, has its confidence and its risk
\* score in [0, 1], a threat type exactly when it is ATTACK, and a risk
\* score equal to the confidence for ATTACK and to 1 - confidence for BENIGN.
C21_ResultsWellFormed ==
  analysis.pc \in {"classified", "done"} =>
    \A i \in 1..Len(Predictions) : WellFormed(Predictions[i])

\* ---- properties of the classifier's functions ----

ThreatTypeCalled == call.op = "_determine_threat_type"
CalledPort == Get(call.features, "Dst Port", 0)
CalledRate == Get(call.features, "Flow Pkts/s", 0)

\* C22: the threat type of an ATTACK follows the precedence of the rules:
\* port 22 or 23 gives Brute_Force; port 80, 443 or 8080 gives DDoS when
\* the packet rate is above 100 and Web_Attack otherwise (a rate of exactly
\* 100 included); port 135, 139 or 445 gives Lateral_Movement; any other
\* port gives High_Confidence_Attack when the confidence is above 0.9 and
\* Suspicious_Activity otherwise (exactly 0.9 included). A port rule
\* decides whatever the confidence is.
C22_ThreatTypePrecedence ==
  ThreatTypeCalled =>
    /\ CalledPort \in {22, 23} => call.result = "Brute_Force"
    /\ (CalledPort \in {80, 443, 8080} /\ CalledRate > 100)
         => call.result = "DDoS"
    /\ (CalledPort \in {80, 443, 8080} /\ CalledRate <= 100)
         => call.result = "Web_Attack"
    /\ CalledPort \in {135, 139, 445} => call.result = "Lateral_Movement"
    /\ (CalledPort \notin {22, 23, 80, 443, 8080, 135, 139, 445}
        /\ call.confidence > 90)
         => call.result = "High_Confidence_Attack"
    /\ (CalledPort \notin {22, 23, 80, 443, 8080, 135, 139, 445}
        /\ call.confidence <= 90)
         => call.result = "Suspicious_Activity"

\* a web port at a rate of exactly 100 with a confidence above 0.9: the
\* port rule decides, on its lower branch
C22_Witness ==
  /\ ThreatTypeCalled
  /\ CalledPort = 443
  /\ CalledRate = 100
  /\ call.confidence = 95
  /\ call.result = "Web_Attack"

BatchCalled ==
  /\ call.op \in {"predict_batch_features", "predict_batch_flows"}
  /\ ~call.raised

\* what scoring input i on its own gives
ScoredAlone(i) ==
  ScoredOutput(call.features_list[i], call.verdicts[i].prediction,
               call.verdicts[i].probabilities)

\* C23: when the scoring of one vector of a batch (of five vectors, or of
\* any other number) throws, the batch still answers one result per
\* vector, the result at the failing index is the degraded default, and
\* every other result is the one normal scoring gives that vector.
C23_OnlyFailingVectorDegraded ==
  (BatchCalled /\ call.throws # 0) =>
    /\ Len(call.results) = Len(call.features_list)
    /\ call.results[call.throws] = DegradedDefault
    /\ \A i \in DOMAIN call.results :
         i # call.throws => call.results[i] = ScoredAlone(i)

\* C24: a batch scored by the loaded classifier answers exactly one result
\* per input, in the order of the inputs: result i is the scoring of input
\* i when nothing throws, the lengths are equal when something throws, and
\* an empty batch answers an empty list.
C24_OneResultPerInputInOrder ==
  BatchCalled =>
    /\ Len(call.results) = Len(call.features_list)
    /\ call.throws = 0 =>
         \A i \in DOMAIN call.results : call.results[i] = ScoredAlone(i)
    /\ call.features_list = <<>> => call.results = <<>>

\* a full batch scored without a failure, its first two results of
\* different classes
C24_Witness ==
  /\ BatchCalled
  /\ call.throws = 0
  /\ Len(call.features_list) = MaxVectors
  /\ Len(call.results) = MaxVectors
  /\ call.results[1].classification = "ATTACK"
  /\ call.results[2].classification = "BENIGN"
  /\ call.results[1].threat_type = "Web_Attack"

\* a result that scoring computed, as opposed to the default of a failure
Genuine(i) ==
  /\ call.op \in {"predict_flow_features", "predict_single_flow",
                  "predict_batch_features", "predict_batch_flows"}
  /\ ~call.raised
  /\ call.throws = 0
  /\ i \in DOMAIN call.results

\* C25: the degraded default is told apart from every genuine verdict: no
\* result that scoring computed is equal, field for field, to the default
\* returned after a failure.
C25_DegradedDefaultDistinct ==
  \A i \in 1..MaxVectors : Genuine(i) => call.results[i] # DegradedDefault

PreprocessCalled == call.op = "preprocess_flow_data" /\ ~call.raised

\* the number the dictionary of the call holds for a configured name:
\* the value under the column the name is read from, 0 when the name or
\* the column is missing or the value is not a finite number
ExpectedElement(feature_name) ==
  IF feature_name \notin ModelFeatureNames THEN 0
  ELSE IF ColumnOf(feature_name) \notin DOMAIN call.flow_features THEN 0
  ELSE IF call.flow_features[ColumnOf(feature_name)].kind = "num"
  THEN call.flow_features[ColumnOf(feature_name)].v
  ELSE 0

\* C26: the vector preprocess_flow_data builds has exactly as many
\* elements as the configured feature list, in the configured order:
\* element k is the value of the k-th configured feature read through its
\* alias, 0.0 when the feature is absent from the input, and 0.0 when the
\* value is NaN or infinite.
C26_VectorFollowsConfiguredList ==
  PreprocessCalled =>
    /\ Len(call.vector) = Len(call.selected_features)
    /\ \A k \in DOMAIN call.vector :
         call.vector[k] = ExpectedElement(call.selected_features[k])

\* a list configured in another order than the mapping, with a name the
\* mapping does not hold, over an input with an infinite value and an
\* absent column
C26_Witness ==
  /\ PreprocessCalled
  /\ call.selected_features =
       <<"Idle Min", "Flow Duration", "Packet Count", "Destination Port">>
  /\ DOMAIN call.flow_features = {"Dst Port", "Flow Duration"}
  /\ call.flow_features["Flow Duration"] = PosInf
  /\ call.flow_features["Dst Port"] = Num(80)
  /\ call.vector = <<0, 0, 0, 80>>

\* ---- properties of the extractor's functions ----

KeyCalled == call.op = "_create_flow_key"

Extracted == call.op = "extract_features_from_pcap"

\* the packets of a capture that have an IP layer
IpPackets == {i \in DOMAIN call.packets : call.packets[i].ip}

\* the flows a packet was put in
FlowsHolding(packet) ==
  {k \in DOMAIN call.flows :
     \E j \in DOMAIN call.flows[k][2] : call.flows[k][2][j] = packet}

\* two packets of one exchange, in opposite directions
Opposite(p, q) ==
  /\ p.src = q.dst /\ p.dst = q.src
  /\ p.sport = q.dport /\ p.dport = q.sport
  /\ p.proto = q.proto /\ p.transport = q.transport

\* C27: the flow key is symmetric: _create_flow_key of an endpoint pair
\* and of the swapped pair are equal, the key lists first the endpoint
\* whose (ip, port) tuple is not the greater, and the packets of the two
\* directions of an exchange are put in the same flow.
C27_FlowKeySymmetric ==
  /\ KeyCalled =>
       /\ call.key = CreateFlowKey(call.dst_ip, call.src_ip, call.dst_port,
                                   call.src_port, call.protocol)
       /\ ~TupleLess(call.key[5], call.key[7], call.key[1], call.key[3])
       /\ {<<call.key[1], call.key[3]>>, <<call.key[5], call.key[7]>>}
            = {<<call.src_ip, call.src_port>>, <<call.dst_ip, call.dst_port>>}
       /\ call.key[9] = call.protocol
  /\ Extracted =>
       \A i \in IpPackets, j \in IpPackets :
         Opposite(call.packets[i], call.packets[j]) =>
           FlowsHolding(call.packets[i]) = FlowsHolding(call.packets[j])

\* a key made from the server's side: the client, whose address is the
\* smaller string though the greater number, is listed first
C27_Witness ==
  /\ KeyCalled
  /\ call.src_ip = ServerIp /\ call.src_port = 80
  /\ call.dst_ip = ClientIp /\ call.dst_port = 51000
  /\ call.key = JoinedKey(ClientIp, 51000, ServerIp, 80, call.protocol)

\* the times of the packets of a flow
TimesOf(packets) == {packets[j].time : j \in DOMAIN packets}

\* the time between the earliest and the latest packet of a flow
Span(packets) ==
  (CHOOSE t \in TimesOf(packets) : \A u \in TimesOf(packets) : u <= t)
  - (CHOOSE t \in TimesOf(packets) : \A u \in TimesOf(packets) : t <= u)

\* three packets of sizes 64, 128 and 64 from one source, two milliseconds
\* from the first to the last
ThreeForward(packets) ==
  /\ <<packets[1].len, packets[2].len, packets[3].len>> = <<64, 128, 64>>
  /\ \A j \in DOMAIN packets : packets[j].src = packets[1].src
  /\ Span(packets) = 2000

\* the statistics of a direction are its defaults
DefaultsTo0(row, direction) ==
  /\ row["TotLen " \o direction \o " Pkts"] = 0
  /\ row[direction \o " Pkt Len Max"] = 0
  /\ row[direction \o " Pkt Len Min"] = 0
  /\ row[direction \o " Pkt Len Mean"].num = 0

\* C28: every packet of a flow is counted in exactly one direction (the
\* forward and backward counts add up to the packets of the flow, and so
\* do the byte totals), a direction with no packet has 0 for its
\* statistics, and a flow of three forward packets of sizes 64, 128 and
\* 64 over 0.002 s has Tot Fwd Pkts 3, TotLen Fwd Pkts 256, Fwd Pkt Len
\* Mean 256/3 (85.33), Tot Bwd Pkts 0, Bwd Pkt Len Mean 0 and Flow
\* Duration 2000 microseconds.
C28_PacketsCountedInOneDirection ==
  Extracted =>
    /\ Len(call.rows) = Len(call.flows)
    /\ \A k \in DOMAIN call.rows :
         LET row == call.rows[k]
             packets == call.flows[k][2]
         IN  /\ row["Tot Fwd Pkts"] + row["Tot Bwd Pkts"] = Len(packets)
             /\ row["TotLen Fwd Pkts"] + row["TotLen Bwd Pkts"]
                  = SumLen(packets)
             /\ row["Tot Fwd Pkts"] = 0 => DefaultsTo0(row, "Fwd")
             /\ row["Tot Bwd Pkts"] = 0 => DefaultsTo0(row, "Bwd")
             /\ row["Flow Duration"] = Span(packets)
             /\ (Len(packets) = 3 /\ ThreeForward(packets)) =>
                  /\ row["Tot Fwd Pkts"] = 3
                  /\ row["TotLen Fwd Pkts"] = 256
                  /\ row["Fwd Pkt Len Mean"] = [num |-> 256, den |-> 3]
                  /\ (100 * row["Fwd Pkt Len Mean"].num)
                       \div row["Fwd Pkt Len Mean"].den = 8533
                  /\ row["Tot Bwd Pkts"] = 0
                  /\ row["Bwd Pkt Len Mean"].num = 0
                  /\ row["Flow Duration"] = 2000

\* the capture of the scenario: one flow, its three packets from the
\* client
C28_Witness ==
  /\ Extracted
  /\ Len(call.flows) = 1
  /\ Len(call.rows) = 1
  /\ Len(call.flows[1][2]) = 3
  /\ ThreeForward(call.flows[1][2])
  /\ call.rows[1]["Tot Fwd Pkts"] = 3
  /\ call.rows[1]["Flow Duration"] = 2000

ParallelCalled == call.op = "_extract_features_parallel"

\* the chunk, that is the worker unit, flow i of the call was handed to
UnitOf(i) ==
  ((i - 1) \div ChunkSize(Len(call.flows), call.max_workers)) + 1

\* the rows of the output that are records of a flow
RowsOf(flow_key) ==
  {k \in DOMAIN call.rows : call.rows[k]["Flow ID"] = flow_key}

\* the computation of flow i succeeded in a unit that gave its list back
Succeeded(i) ==
  /\ call.flows[i][1] \notin call.failing
  /\ UnitOf(i) \notin call.failed_units

\* C29: the parallel extraction returns a table whatever fails, and the
\* table holds exactly one record of every flow whose computation
\* succeeded and none of a flow whose computation failed: neither the
\* failure of another flow, in the same unit or not, nor the failure of
\* another worker unit removes or repeats a record.
C29_OnlyFailingFlowsMissing ==
  ParallelCalled =>
    \A i \in DOMAIN call.flows :
      Cardinality(RowsOf(call.flows[i][1])) = IF Succeeded(i) THEN 1 ELSE 0

\* two workers: the first flow fails beside the second in their unit, and
\* the second unit fails as a whole; the record of the second flow is there
C29_Witness ==
  /\ ParallelCalled
  /\ Len(call.flows) = MaxExtracted
  /\ call.max_workers = 2
  /\ call.failing = {call.flows[1][1]}
  /\ call.failed_units = {2}
  /\ UnitOf(1) = UnitOf(2)
  /\ RowsOf(call.flows[1][1]) = {}
  /\ RowsOf(call.flows[2][1]) = {1}
  /\ RowsOf(call.flows[3][1]) = {}

\* ---- properties of the reads of a job ----

\* a step that is a read of job j
ReadOf(j) ==
  \/ GetAnalysisStatus(j)
  \/ GetAnalysisResults(j)
  \/ GetAnalysisSummary(j)
  \/ GetAnalysisThreats(j)

\* the read answered with the result or a part of it
ResultServed ==
  /\ ret'.op \in {"get_analysis_results", "get_analysis_summary",
                  "get_analysis_threats"}
  /\ ret'.kind = "200"

\* C30: the reads of a job are pure and gate on its status: a read of the
\* status, of the result, of the summary or of the threats leaves the
\* status store and the results store as they were, and it answers with
\* the result only when the job has a status entry and its status is
\* completed.
C30_ReadsPureAndGated ==
  [][\A j \in JobIds :
       ReadOf(j) =>
         /\ UNCHANGED <<analysis_status_store, analysis_results_store>>
         /\ ResultServed =>
              /\ j \in DOMAIN analysis_status_store
              /\ analysis_status_store[j].status = "completed"]_vars

\* ---- properties of the order of the detailed results ----

\* what the classification of the ended analysis was run with
ClassifiedWith == analysis.classified_with

\* the prediction of the i-th row of the feature matrix: the mock prediction
\* of the fallback, the degraded default of a failed batch, or the verdict of
\* the classifier for that row
PredictionOfRow(i) ==
  IF ~ClassifiedWith.loaded
  THEN MockPrediction(i, ClassifiedWith.attacks, ClassifiedWith.draw)
  ELSE IF BatchOf(i) \in ClassifiedWith.failing THEN DegradedDefault
  ELSE ModelOutput(analysis.processed_data[i], i, ClassifiedWith.attacks)

\* C31: detailed_results is the first min(100, n) flows in the order of the
\* extracted table: entry i has the flow id, the addresses, the ports and
\* the protocol of row i and the prediction computed for row i, also when
\* the rows were classified in more than one batch of 100
C31_DetailedResultsInExtractionOrder ==
  Done =>
    /\ Len(Results.detailed_results)
         = (IF Len(FlowTable) < detailed_limit
            THEN Len(FlowTable) ELSE detailed_limit)
    /\ \A i \in 1..Len(Results.detailed_results) :
         /\ Results.detailed_results[i].flow_id = FlowTable[i]["Flow ID"]
         /\ Results.detailed_results[i].src_ip = FlowTable[i]["Src IP"]
         /\ Results.detailed_results[i].dst_ip = FlowTable[i]["Dst IP"]
         /\ Results.detailed_results[i].src_port = FlowTable[i]["Src Port"]
         /\ Results.detailed_results[i].dst_port = FlowTable[i]["Dst Port"]
         /\ Results.detailed_results[i].protocol = FlowTable[i]["Protocol"]
         /\ Results.detailed_results[i].prediction = PredictionOfRow(i)

\* an extracted capture of two batches, scored by the loaded classifier:
\* the second flow is an ATTACK and is the second entry, the last entry is
\* the hundredth flow, and an ATTACK of the second batch is in no entry
C31_Witness ==
  /\ Done
  /\ ~analysis.synthetic
  /\ ClassifiedWith.loaded
  /\ ClassifiedWith.failing = {}
  /\ Len(FlowTable) > detailed_limit
  /\ ClassifiedWith.attacks = {2, detailed_limit + 1}
  /\ Len(Results.detailed_results) = detailed_limit
  /\ Results.detailed_results[2].src_port = 2
  /\ Results.detailed_results[2].prediction.classification = "ATTACK"
  /\ Results.detailed_results[detailed_limit].src_port = detailed_limit
  /\ Results.detailed_results[detailed_limit].prediction.classification
       = "BENIGN"

\* ---- properties of concurrent jobs ----

\* the activation of job j is created or moves in this step: its save, its
\* extraction, its classification, its cleanup or its status updates run
JobSteps(j) ==
  /\ j \in DOMAIN background'
  /\ (j \in DOMAIN background => background'[j] # background[j])

\* the entry a store holds under an id, as a list of at most one entry
EntryOf(store, k) == IF k \in DOMAIN store THEN <<store[k]>> ELSE <<>>

\* C32: jobs with distinct ids share no mutable state: a step of job j
\* leaves the temporary directory of every other job as it is (there or not
\* there), and writes no status entry and no result entry of another job.
C32_JobsShareNoState ==
  [][\A j \in JobIds, k \in JobIds :
       (j # k /\ JobSteps(j)) =>
         /\ (k \in temp_dirs') = (k \in temp_dirs)
         /\ EntryOf(analysis_status_store', k)
              = EntryOf(analysis_status_store, k)
         /\ EntryOf(analysis_results_store', k)
              = EntryOf(analysis_results_store, k)]_vars

\* two jobs at once: one has ended with its result stored and its directory
\* removed while the other is still extracting, its directory in place
C32_Witness ==
  \E j \in DOMAIN background, k \in DOMAIN background :
    /\ j # k
    /\ background[j].pc = "finished"
    /\ background[j].outcome = "result"
    /\ j \in DOMAIN analysis_results_store
    /\ j \notin temp_dirs
    /\ background[k].pc = "extracting"
    /\ k \in temp_dirs
    /\ k \in DOMAIN analysis_status_store
    /\ analysis_status_store[k].status = "processing"

\* ---- properties of the threat type in the pipeline ----

\* C33: in the pipeline, the threat type of every ATTACK flow scored by the
\* classifier is the one the precedence of the rules gives for the
\* destination port and the packet rate of that flow's own record (an
\* ATTACK flow whose record has destination port 22 is a Brute_Force).
C33_ThreatTypeFromFlowRecord ==
  (analysis.pc \in {"classified", "done"} /\ ClassifiedWith.loaded) =>
    \A i \in Attacks :
      Predictions[i].threat_type
        = DetermineThreatType(FlowTable[i], Predictions[i].confidence)

\* ---- properties of the result buffer ----

\* C34: wherever another coroutine or a request can look, the result buffer
\* has as many results as the current session has counted flows, each
\* carrying that session's id, in the order they were appended; with no
\* session the buffer is empty, get_current_status reports that length, and
\* the session a stop returns has as many flows as the buffer holds.
C34_BufferMatchesTotalFlows ==
  /\ current_scan_session = None => scan_results = <<>>
  /\ current_scan_session # None =>
       /\ Len(scan_results) = sessions[current_scan_session].total_flows
       /\ \A i \in 1..Len(scan_results) :
            scan_results[i] = ScanResult(current_scan_session, i)
       /\ get_current_status.total_results
            = sessions[current_scan_session].total_flows
  /\ StopReturned =>
       /\ Len(get_all_results) = sessions[ret.sid].total_flows
       /\ \A i \in 1..Len(get_all_results) :
            get_all_results[i] = ScanResult(ret.sid, i)

\* a stop has returned a finalized session that counted two flows, one of
\* them an ATTACK, after a second start had emptied the buffer of the first
C34_Witness ==
  /\ StopReturned
  /\ ~is_scanning
  /\ ret.sid = 2
  /\ sessions[ret.sid].status = "COMPLETED"
  /\ sessions[ret.sid].total_flows = 2
  /\ sessions[ret.sid].attack_count = 1
  /\ Len(scan_results) = 2

\* ---- properties of the scanning flag ----

\* no stop_scanning call is suspended between its first and last statement
NoStopInProgress == \A c \in StopCalls : stops[c].pc = "idle"

\* C35: between operations, is_scanning is true exactly when there is a
\* current session and its status is RUNNING, also after the scan loop has
\* ended on an unexpected error.
C35_FlagAgreesWithStatus ==
  NoStopInProgress =>
    (is_scanning <=>
       (/\ current_scan_session # None
        /\ sessions[current_scan_session].status = "RUNNING"))

\* ---- properties of a stop overtaken by a start ----

\* the session that was current when activation c of stop_scanning was
\* called: start_scanning gives a session and its cycle task the same
\* number, and c awaits the task of that session
SessionOfStop(c) == stops[c].task

\* C36: a stop_scanning call that was suspended returns the session that was
\* running when it was called, and a session started in the meantime is
\* still RUNNING and scanning when the stop returns.
C36_SuspendedStopKeepsItsSession ==
  [][\A c \in StopCalls :
       (/\ stops[c].pc # "idle"
        /\ stops'[c].pc = "idle"
        /\ ret'.kind = "session") =>
         /\ ret'.sid = SessionOfStop(c)
         /\ current_scan_session' # SessionOfStop(c) =>
              /\ sessions'[current_scan_session'].status = "RUNNING"
              /\ is_scanning']_vars

\* ---- properties of the two job stores ----

\* C37: every analysis id in the results store has a status entry whose
\* status is completed, and no background task has ended with an error it
\* did not handle.
C37_StoredResultHasCompletedStatus ==
  /\ \A j \in DOMAIN analysis_results_store :
       /\ j \in DOMAIN analysis_status_store
       /\ analysis_status_store[j].status = "completed"
  /\ \A j \in 1..Len(background) : background[j].pc # "crashed"

\* ---- properties of the number of predictions ----

\* C38: a classified table has one prediction per flow record, and the
\* result of a completed analysis counts the rows of the table: with the
\* classifier's verdicts, with the defaults of a failed batch, and with the
\* mock predictions of the fallback.
C38_OnePredictionPerFlowRecord ==
  /\ analysis.pc \in {"classified", "done"} =>
       /\ Len(analysis.processed_data) = Len(analysis.flow_df)
       /\ Len(analysis.predictions) = Len(analysis.flow_df)
  /\ analysis.pc = "done" =>
       /\ analysis.results.summary.total_flows = Len(analysis.flow_df)
       /\ analysis.results.statistics.flows_analyzed = Len(analysis.flow_df)

\* a completed analysis of more than one batch whose classification fell
\* back to the mock predictions
C38_Witness ==
  /\ analysis.pc = "done"
  /\ ~analysis.classified_with.loaded
  /\ BatchCount(Len(analysis.flow_df)) > 1
  /\ analysis.results.summary.total_flows = Len(analysis.flow_df)
  /\ analysis.results.summary.malicious_flows > 0

\* ---- properties of the source identity of a flow record ----

\* the earliest packet of a flow, the first in time order
EarliestPacket(packets) == SortedByTime(packets)[1]

\* C39: in every flow record 'Src IP' and 'Src Port' are the address and
\* the port the earliest packet of the flow was sent from, whose packets
\* are the forward ones, and 'Dst IP' and 'Dst Port' those it was sent to.
C39_SourceIsForwardEndpoint ==
  Extracted =>
    \A k \in DOMAIN call.rows :
      LET first_packet == EarliestPacket(call.flows[k][2])
      IN  /\ call.rows[k]["Src IP"] = first_packet.src
          /\ call.rows[k]["Src Port"] = first_packet.sport
          /\ call.rows[k]["Dst IP"] = first_packet.dst
          /\ call.rows[k]["Dst Port"] = first_packet.dport

\* ---- services/network_scanner.py: get_live_results_stream ----

\* one pass of `while self.is_scanning` for a consumer at last_count: the
\* generator ends, or yields scan_results[last_count:current_count] and
\* moves last_count, or yields nothing, and then sleeps
StreamIteration(stream) ==
  IF ~is_scanning THEN [stream EXCEPT !.pc = "ended"]
  ELSE LET current_count == Len(scan_results)
       IN  IF current_count > stream.last_count
           THEN [stream EXCEPT
                   !.delivered = @ \o SubSeq(scan_results,
                                             stream.last_count + 1,
                                             current_count),
                   !.last_count = current_count]
           ELSE stream

\* the consumer asks for the first item: `last_count = 0` and the first
\* pass.  before is the buffer it found, appended the results the scan
\* loop has appended since
StreamAttach ==
  /\ call = NoCall
  /\ call' = StreamIteration([op |-> "get_live_results_stream",
                              pc |-> "sleep", last_count |-> 0,
                              delivered |-> <<>>, before |-> scan_results,
                              appended |-> <<>>])
  /\ UNCHANGED nonCallVars

\* asyncio.sleep(1) is over: the next pass
StreamStep ==
  /\ call.op = "get_live_results_stream"
  /\ call.pc = "sleep"
  /\ call' = StreamIteration(call)
  /\ UNCHANGED nonCallVars

\* ---- the scanner and a stream consumer as a system ----

\* the results a step of the scanner appended to the buffer
AppendedBy(old, new) ==
  IF Len(new) > Len(old) THEN SubSeq(new, Len(old) + 1, Len(new)) ELSE <<>>

\* a step of the scanner beside the consumer
Observed ==
  /\ call' = IF call # NoCall /\ call.pc = "sleep"
             THEN [call EXCEPT
                     !.appended = @ \o AppendedBy(scan_results, scan_results')]
             ELSE call
  /\ UNCHANGED <<storeVars, analysis>>

StreamStart ==
  /\ \E settings \in IntervalSettings, user_id \in UserIds,
        artifacts_ok \in BOOLEAN :
       StartScanning(settings, user_id, artifacts_ok)
  /\ Observed

StreamStop == (\E c \in StopCalls : StopScanning(c)) /\ Observed

StreamResume == (\E c \in StopCalls : StopResume(c)) /\ Observed

StreamInsertOne ==
  /\ \E c \in StopCalls, db_ok \in BOOLEAN : StopInsertOne(c, db_ok)
  /\ Observed

StreamInsertMany ==
  /\ \E c \in StopCalls, db_ok \in BOOLEAN : StopInsertMany(c, db_ok)
  /\ Observed

StreamLoop == (\E t \in SessionIds : ScanLoopStep(t)) /\ Observed

NextStream ==
  \/ StreamStart \/ StreamStop \/ StreamResume \/ StreamInsertOne
  \/ StreamInsertMany \/ StreamLoop \/ StreamAttach \/ StreamStep

SpecStream == Init /\ [][NextStream]_vars

\* ---- properties of the live stream ----

IsPrefix(s, t) == Len(s) <= Len(t) /\ SubSeq(t, 1, Len(s)) = s

\* C40: what the consumer has received is at every moment a prefix of the
\* results the buffer held when it attached followed by the results appended
\* since, in that order, and when the stream has ended every appended result
\* has been received.
C40_StreamDeliversEveryResultOnce ==
  call # NoCall =>
    /\ IsPrefix(call.delivered, call.before \o call.appended)
    /\ (call.pc = "ended" /\ call.appended # <<>>) =>
         call.delivered = call.before \o call.appended

====
